---- MODULE Spec2Model ----
(***************************************************************************)
(* Model of the money-tracker-bot extraction and reconciliation pipeline:  *)
(* the Gemini adapter (candidate parsing, amount normalisation), the       *)
(* transaction service and the Google Sheets adapter (append + summary).   *)
(*                                                                         *)
(* Strings whose characters matter (amounts) are sequences of one-char     *)
(* strings; every other string is an opaque TLA+ string.                   *)
(***************************************************************************)
EXTENDS Integers, Sequences, FiniteSets, TLC

(***************************************************************************)
(* Bounds of the model.                                                    *)
(***************************************************************************)
MaxLen == 3          \* longest amount string given to ensurePositiveAmount
MaxCandidates == 2   \* most candidates in one backend response
MaxRows == 1         \* most rows appended to the detail table in one run
MaxSummaryRows == 2  \* most rows in the summary window that is read back

(***************************************************************************)
(* Strings as character sequences.                                         *)
(***************************************************************************)
Alphabet == {"-", "0", "1", "."}

RECURSIVE StringsOfLen(_)
StringsOfLen(n) ==
    IF n = 0 THEN {<<>>}
    ELSE {Append(s, c) : s \in StringsOfLen(n - 1), c \in Alphabet}

AmountStrings == UNION {StringsOfLen(n) : n \in 0..MaxLen}

\* strings.HasPrefix
HasPrefix(s, prefix) ==
    /\ Len(s) >= Len(prefix)
    /\ SubSeq(s, 1, Len(prefix)) = prefix

\* strings.HasSuffix
HasSuffix(s, suffix) ==
    /\ Len(s) >= Len(suffix)
    /\ SubSeq(s, Len(s) - Len(suffix) + 1, Len(s)) = suffix

\* strings.TrimPrefix: removes the prefix once, when s starts with it
TrimPrefix(s, prefix) ==
    IF HasPrefix(s, prefix) THEN SubSeq(s, Len(prefix) + 1, Len(s)) ELSE s

\* strings.TrimSuffix: removes the suffix once, when s ends with it
TrimSuffix(s, suffix) ==
    IF HasSuffix(s, suffix) THEN SubSeq(s, 1, Len(s) - Len(suffix)) ELSE s

\* a variant that deletes every '-' of the string (strings.ReplaceAll)
RECURSIVE ensurePositiveAmount_ReplaceAll(_)
ensurePositiveAmount_ReplaceAll(amount) ==
    IF amount = <<>> THEN <<>>
    ELSE IF Head(amount) = "-" THEN ensurePositiveAmount_ReplaceAll(Tail(amount))
    ELSE <<Head(amount)>> \o ensurePositiveAmount_ReplaceAll(Tail(amount))

\* ensurePositiveAmount: strings.TrimPrefix(amount, "-")
ensurePositiveAmount(amount) == TrimPrefix(amount, <<"-">>)

(***************************************************************************)
(* Errors.  Every error value has the same shape; type says which Go type  *)
(* carries it: "nil" (no error), "errorString" (errors.New), "wrapError"   *)
(* (fmt.Errorf with %w) or "AppError" (a pointer to errors.AppError).      *)
(***************************************************************************)
ErrCodeConfig == "CONFIG_ERROR"
ErrCodeTelegram == "TELEGRAM_ERROR"
ErrCodeGemini == "GEMINI_ERROR"
ErrCodeSpreadsheet == "SPREADSHEET_ERROR"
ErrCodeFileOperation == "FILE_ERROR"
ErrCodeValidation == "VALIDATION_ERROR"
ErrCodeTransaction == "TRANSACTION_ERROR"
ErrCodeNetwork == "NETWORK_ERROR"
ErrCodeTimeout == "TIMEOUT_ERROR"
ErrCodeDataAccess == "DATA_ACCESS_ERROR"
ErrCodeDataFormat == "DATA_FORMAT_ERROR"
ErrCodeDataIntegrity == "DATA_INTEGRITY_ERROR"

SeverityInfo == "INFO"
SeverityWarning == "WARNING"
SeverityError == "ERROR"
SeverityCritical == "CRITICAL"

\* the Context map of an AppError: a set of <<key, value>> pairs
NoContext == {}

NilError ==
    [type |-> "nil", code |-> "", severity |-> "", component |-> "",
     message |-> "", cause |-> "", context |-> NoContext]

\* errors.New / any error of a library: cause names the failure
PlainError(msg) ==
    [type |-> "errorString", code |-> "", severity |-> "", component |-> "",
     message |-> msg, cause |-> "", context |-> NoContext]

\* fmt.Errorf("<msg>: %w", err): a *fmt.wrapError around err
Errorf(msg, err) ==
    [type |-> "wrapError", code |-> "", severity |-> "", component |-> "",
     message |-> msg, cause |-> err.message, context |-> NoContext]

newAppError(code, message, component, severity, cause) ==
    [type |-> "AppError", code |-> code, severity |-> severity,
     component |-> component, message |-> message, cause |-> cause.message,
     context |-> NoContext]

NewConfigError(message, cause) ==
    newAppError(ErrCodeConfig, message, "config", SeverityCritical, cause)

NewTelegramError(message, cause) ==
    newAppError(ErrCodeTelegram, message, "telegram", SeverityError, cause)

NewTelegramCriticalError(message, cause) ==
    newAppError(ErrCodeTelegram, message, "telegram", SeverityCritical, cause)

NewGeminiError(message, cause) ==
    newAppError(ErrCodeGemini, message, "gemini", SeverityError, cause)

NewGeminiTimeoutError(message, cause) ==
    newAppError(ErrCodeTimeout, message, "gemini", SeverityWarning, cause)

NewSpreadsheetError(message, cause) ==
    newAppError(ErrCodeSpreadsheet, message, "spreadsheet", SeverityError, cause)

NewSpreadsheetCriticalError(message, cause) ==
    newAppError(ErrCodeSpreadsheet, message, "spreadsheet", SeverityCritical, cause)

NewFileError(message, cause) ==
    newAppError(ErrCodeFileOperation, message, "file", SeverityError, cause)

NewValidationError(message, cause) ==
    newAppError(ErrCodeValidation, message, "validation", SeverityError, cause)

NewTransactionError(message, cause) ==
    newAppError(ErrCodeTransaction, message, "transaction", SeverityError, cause)

NewNetworkError(message, cause) ==
    newAppError(ErrCodeNetwork, message, "network", SeverityWarning, cause)

NewDataAccessError(message, cause) ==
    newAppError(ErrCodeDataAccess, message, "data", SeverityError, cause)

\* toAppError: an AppError is returned as it is, any other error is put in
\* a generic AppError
toAppError(err) ==
    IF err.type = "AppError" THEN err
    ELSE [type |-> "AppError", code |-> "GENERIC_ERROR", severity |-> SeverityError,
          component |-> "unknown", message |-> err.message,
          cause |-> err.message, context |-> NoContext]

\* AppError.WithContext: e.Context[key] = value
WithContext(e, key, value) ==
    [e EXCEPT !.context = {kv \in @ : kv[1] # key} \cup {<<key, value>>}]

\* AppError.WithComponent
WithComponent(e, component) == [e EXCEPT !.component = component]

\* a variant that retries on connectivity failures only
IsRetryable_ConnectivityOnly(e) ==
    e.code \in {ErrCodeNetwork, ErrCodeTimeout}

\* AppError.IsRetryable
IsRetryable(e) ==
    e.code \in {ErrCodeNetwork, ErrCodeTimeout, ErrCodeSpreadsheet, ErrCodeGemini}

\* AppError.IsCritical
IsCritical(e) == e.severity = SeverityCritical

\* IsCriticalError: a type assertion to *AppError
IsCriticalError(err) ==
    IF err.type = "AppError" THEN IsCritical(err) ELSE FALSE

(***************************************************************************)
(* SafeExecute.  The wrapped function is given by what a call of it does:  *)
(* it returns err, or it panics with a value.  pkind is the dynamic type   *)
(* of the panic value: "string", "error", "other" (any other type) or      *)
(* "nil" for panic(nil), which the runtime of Go 1.21 and later turns into *)
(* a *runtime.PanicNilError, an error.                                     *)
(***************************************************************************)
Returns(err) == [kind |-> "return", err |-> err, pkind |-> "", pval |-> ""]
Panics(pkind, pval) == [kind |-> "panic", err |-> NilError, pkind |-> pkind, pval |-> pval]

\* getStackTrace: the text written by runtime.Stack, never empty
StackTrace == "goroutine 1 [running]:"

\* the value returned by recover() in the deferred function
Recovered(fn) ==
    IF fn.pkind = "nil"
    THEN [pkind |-> "error", pval |-> "panic called with nil argument"]
    ELSE [pkind |-> fn.pkind, pval |-> fn.pval]

\* the switch on the type of the recovered value: fmt.Errorf("panic: %w", x)
\* for an error, fmt.Errorf("panic: %s" or "panic: %v", x) otherwise
PanicError(r) ==
    IF r.pkind = "error" THEN Errorf("panic", PlainError(r.pval))
    ELSE PlainError("panic")

\* the error built by the deferred function of SafeExecute
RecoveredError(r, context) ==
    WithContext(
        WithContext(
            WithContext(NewTransactionError("recovered from panic", PanicError(r)),
                        "panic_value", r.pval),
            "stack_trace", StackTrace),
        "function_context", context)

\* a variant whose deferred function handles string panics only and
\* panics again with any other value
SafeExecute_StringPanicsOnly(fn, context) ==
    IF fn.kind = "return"
    THEN [err |-> fn.err, escaped |-> FALSE, logged |-> FALSE]
    ELSE IF Recovered(fn).pkind = "string"
    THEN [err |-> RecoveredError(Recovered(fn), context), escaped |-> FALSE,
          logged |-> TRUE]
    ELSE [err |-> NilError, escaped |-> TRUE, logged |-> FALSE]

\* SafeExecute(fn, context): err is the value returned, escaped says that a
\* panic leaves SafeExecute, logged that HandleError logged the error
SafeExecute(fn, context) ==
    IF fn.kind = "return"
    THEN [err |-> fn.err, escaped |-> FALSE, logged |-> FALSE]
    ELSE [err |-> RecoveredError(Recovered(fn), context), escaped |-> FALSE,
          logged |-> TRUE]

\* IsRetryableError: a type assertion to *AppError, not errors.As
IsRetryableError(err) ==
    IF err.type = "AppError" THEN IsRetryable(err) ELSE FALSE

(***************************************************************************)
(* The Transaction record and its JSON wire form.                          *)
(***************************************************************************)
ZeroTransaction ==
    [TransactionDate |-> "", Amount |-> <<>>, AmountCurrency |-> "",
     Notes |-> "", DestinationName |-> "", DestinationNumber |-> "",
     SourceAccount |-> "", Category |-> "", Title |-> "", FileID |-> "",
     CreatedBy |-> "", WarningMessage |-> ""]

\* the json tags of the struct: wire key -> field
WireKeys ==
    {"transaction_date", "amount", "amount_currency", "notes",
     "destination_name", "destination_number", "source_account", "category",
     "title", "file_id", "created_by", "warning_message"}

\* A member of a JSON object: absent, a JSON string, or a JSON number
\* (any value that is not a string cannot be stored in a string field).
JAbsent == [kind |-> "absent", val |-> ""]
JStr(v) == [kind |-> "string", val |-> v]
JNum(v) == [kind |-> "number", val |-> v]
JAbsentAmount == [kind |-> "absent", val |-> <<>>]

\* the JSON object {}
EmptyObject ==
    [transaction_date |-> JAbsent, amount |-> JAbsentAmount,
     amount_currency |-> JAbsent, notes |-> JAbsent,
     destination_name |-> JAbsent, destination_number |-> JAbsent,
     source_account |-> JAbsent, category |-> JAbsent, title |-> JAbsent,
     file_id |-> JAbsent, created_by |-> JAbsent, warning_message |-> JAbsent]

(***************************************************************************)
(* Text of a candidate: a sequence of tokens.  "ws" is white space,        *)
(* "fence_json" the marker ```json, "fence" the marker ```, "prose" any    *)
(* text that is not JSON, "object" a well-formed JSON object.              *)
(***************************************************************************)
Tok(t) == [t |-> t, o |-> EmptyObject]
ObjTok(o) == [t |-> "object", o |-> o]

\* strings.TrimSpace
RECURSIVE TrimLeftSpace(_)
TrimLeftSpace(s) ==
    IF s # <<>> /\ Head(s).t = "ws" THEN TrimLeftSpace(Tail(s)) ELSE s

RECURSIVE TrimRightSpace(_)
TrimRightSpace(s) ==
    IF s # <<>> /\ s[Len(s)].t = "ws"
    THEN TrimRightSpace(SubSeq(s, 1, Len(s) - 1)) ELSE s

TrimSpace(s) == TrimRightSpace(TrimLeftSpace(s))

\* trimJson
trimJson(jsonText) ==
    TrimSpace(TrimSuffix(TrimPrefix(TrimSpace(jsonText), <<Tok("fence_json")>>),
                         <<Tok("fence")>>))

\* json.Unmarshal([]byte(jsonText), &transaction).  The input is checked
\* for well-formedness first: a syntax error leaves the target untouched.
\* A well-formed object is then stored member by member; a member whose
\* value cannot be stored in its string field is skipped, the others are
\* stored, and the call returns an UnmarshalTypeError at the end.
UnmarshalField(o, key, old) ==
    IF o[key].kind = "string" THEN o[key].val ELSE old

\* a variant for a struct whose WarningMessage field has the tag json:"-"
Unmarshal_NoWarningMessage(jsonText, transaction) ==
    IF Len(jsonText) # 1 \/ jsonText[1].t # "object"
    THEN [err |-> PlainError("SyntaxError"), val |-> transaction]
    ELSE LET o == jsonText[1].o IN
         [err |-> IF \E k \in WireKeys : o[k].kind = "number"
                  THEN PlainError("UnmarshalTypeError") ELSE NilError,
          val |->
            [TransactionDate |-> UnmarshalField(o, "transaction_date", transaction.TransactionDate),
             Amount |-> UnmarshalField(o, "amount", transaction.Amount),
             AmountCurrency |-> UnmarshalField(o, "amount_currency", transaction.AmountCurrency),
             Notes |-> UnmarshalField(o, "notes", transaction.Notes),
             DestinationName |-> UnmarshalField(o, "destination_name", transaction.DestinationName),
             DestinationNumber |-> UnmarshalField(o, "destination_number", transaction.DestinationNumber),
             SourceAccount |-> UnmarshalField(o, "source_account", transaction.SourceAccount),
             Category |-> UnmarshalField(o, "category", transaction.Category),
             Title |-> UnmarshalField(o, "title", transaction.Title),
             FileID |-> UnmarshalField(o, "file_id", transaction.FileID),
             CreatedBy |-> UnmarshalField(o, "created_by", transaction.CreatedBy),
             WarningMessage |-> transaction.WarningMessage]]

\* json.Unmarshal([]byte(jsonText), &transaction)
Unmarshal(jsonText, transaction) ==
    IF Len(jsonText) # 1 \/ jsonText[1].t # "object"
    THEN [err |-> PlainError("SyntaxError"), val |-> transaction]
    ELSE LET o == jsonText[1].o IN
         [err |-> IF \E k \in WireKeys : o[k].kind = "number"
                  THEN PlainError("UnmarshalTypeError") ELSE NilError,
          val |->
            [TransactionDate |-> UnmarshalField(o, "transaction_date", transaction.TransactionDate),
             Amount |-> UnmarshalField(o, "amount", transaction.Amount),
             AmountCurrency |-> UnmarshalField(o, "amount_currency", transaction.AmountCurrency),
             Notes |-> UnmarshalField(o, "notes", transaction.Notes),
             DestinationName |-> UnmarshalField(o, "destination_name", transaction.DestinationName),
             DestinationNumber |-> UnmarshalField(o, "destination_number", transaction.DestinationNumber),
             SourceAccount |-> UnmarshalField(o, "source_account", transaction.SourceAccount),
             Category |-> UnmarshalField(o, "category", transaction.Category),
             Title |-> UnmarshalField(o, "title", transaction.Title),
             FileID |-> UnmarshalField(o, "file_id", transaction.FileID),
             CreatedBy |-> UnmarshalField(o, "created_by", transaction.CreatedBy),
             WarningMessage |-> UnmarshalField(o, "warning_message", transaction.WarningMessage)]]

(***************************************************************************)
(* A candidate of the backend response: Content may be nil; a part is a    *)
(* genai.Text fragment or a part of another type (a blob).                 *)
(***************************************************************************)
TextPart(text) == [isText |-> TRUE, text |-> text]
BlobPart == [isText |-> FALSE, text |-> <<>>]
Candidate(parts) == [hasContent |-> TRUE, parts |-> parts]
NilContent == [hasContent |-> FALSE, parts |-> <<>>]

\* the inner loop: jsonText += fmt.Sprintf("%s", textPart) for text parts
RECURSIVE ConcatText(_)
ConcatText(parts) ==
    IF parts = <<>> THEN <<>>
    ELSE (IF Head(parts).isText THEN Head(parts).text ELSE <<>>)
         \o ConcatText(Tail(parts))

\* a candidate the loop skips before reading it
IsSkipped(cand) == ~cand.hasContent \/ Len(cand.parts) = 0

\* the sanitized text of a candidate
CandidateText(cand) == trimJson(ConcatText(cand.parts))

\* a variant that clears the accumulator when a candidate fails to decode
ParseStep_ResetOnError(cand, transaction) ==
    IF IsSkipped(cand) THEN transaction
    ELSE LET r == Unmarshal(CandidateText(cand), transaction) IN
         IF r.err.type # "nil" THEN ZeroTransaction
         ELSE [r.val EXCEPT !.Amount = ensurePositiveAmount(r.val.Amount)]

\* one iteration of "for _, cand := range resp.Candidates"
ParseStep(cand, transaction) ==
    IF IsSkipped(cand) THEN transaction
    ELSE LET r == Unmarshal(CandidateText(cand), transaction) IN
         IF r.err.type # "nil" THEN r.val
         ELSE [r.val EXCEPT !.Amount = ensurePositiveAmount(r.val.Amount)]

\* the whole loop, from the accumulator "var transaction Transaction"
RECURSIVE ParseCandidates(_, _)
ParseCandidates(candidates, transaction) ==
    IF candidates = <<>> THEN transaction
    ELSE ParseCandidates(Tail(candidates), ParseStep(Head(candidates), transaction))

(***************************************************************************)
(* The Gemini adapter.  A backend response is the pair returned by         *)
(* Model.GenerateContent: an error, or a list of candidates.               *)
(***************************************************************************)
NilTransaction == [isNil |-> TRUE, val |-> ZeroTransaction]
Ptr(transaction) == [isNil |-> FALSE, val |-> transaction]

\* GeminiClient.TextToTransaction
TextToTransaction(r) ==
    IF r.err.type # "nil"
    THEN [trx |-> NilTransaction,
          err |-> Errorf("gemini generate content error", r.err)]
    ELSE [trx |-> Ptr(ParseCandidates(r.candidates, ZeroTransaction)),
          err |-> NilError]

\* outcome of the call of os.Remove made by ReadImageToTransaction
RemoveNotCalled == "not called"
RemoveDone == "removed"
RemoveError == "error"

\* a variant that returns the error of os.Remove to its caller
ReadImageToTransaction_FailOnRemoveError(path, fs, r, removeOk) ==
    IF path \notin fs
    THEN [trx |-> NilTransaction,
          err |-> Errorf("failed to read image", PlainError("no such file")),
          fs |-> fs, remove |-> RemoveNotCalled]
    ELSE IF r.err.type # "nil"
    THEN [trx |-> NilTransaction,
          err |-> Errorf("gemini generate content error", r.err),
          fs |-> fs, remove |-> RemoveNotCalled]
    ELSE IF ~removeOk
    THEN [trx |-> NilTransaction,
          err |-> Errorf("failed to remove image", PlainError("permission denied")),
          fs |-> fs, remove |-> RemoveError]
    ELSE [trx |-> Ptr(ParseCandidates(r.candidates, ZeroTransaction)),
          err |-> NilError,
          fs |-> fs \ {path}, remove |-> RemoveDone]

\* GeminiClient.ReadImageToTransaction on the file system fs; removeOk says
\* whether os.Remove succeeds.  Both early returns come before os.Remove.
ReadImageToTransaction(path, fs, r, removeOk) ==
    IF path \notin fs
    THEN [trx |-> NilTransaction,
          err |-> Errorf("failed to read image", PlainError("no such file")),
          fs |-> fs, remove |-> RemoveNotCalled]
    ELSE IF r.err.type # "nil"
    THEN [trx |-> NilTransaction,
          err |-> Errorf("gemini generate content error", r.err),
          fs |-> fs, remove |-> RemoveNotCalled]
    ELSE [trx |-> Ptr(ParseCandidates(r.candidates, ZeroTransaction)),
          err |-> NilError,
          fs |-> IF removeOk THEN fs \ {path} ELSE fs,
          remove |-> IF removeOk THEN RemoveDone ELSE RemoveError]

(***************************************************************************)
(* The prompt.  A prompt is a sequence of text fragments: the fixed pieces *)
(* of the format strings, the line break NL, and the values put in for the *)
(* verbs, each a fragment of its own.                                      *)
(***************************************************************************)
NL == "\n"

TransactionCategoryList ==
    <<"Groceries", "Utilities", "Entertainment", "Gifting", "Household",
      "Eating Out", "Health", "Transportation", "Savings", "Emergency",
      "Rent House">>

SourceAccountList ==
    <<"GOPAY", "BCA", "OVO", "DANA", "ISAKU", "MANDIRI", "BNI", "BRI", "CASH">>

\* strings.Join(list, sep)
RECURSIVE Join(_, _)
Join(list, sep) ==
    IF list = <<>> THEN <<>>
    ELSE IF Len(list) = 1 THEN <<list[1]>>
    ELSE <<list[1], sep>> \o Join(Tail(list), sep)

PromptParams(isImage, fileID, message, currentDate) ==
    [IsImage |-> isImage, FileID |-> fileID, Message |-> message,
     CurrentDate |-> currentDate]

\* the part of the field list that both modes share
CommonFields ==
    <<"Fields:", NL,
      "  - title (summary of the transaction notes)", NL,
      "  - transaction_date (format always YYYY-MM-DD)", NL,
      "  - amount (ALWAYS use positive numbers in rupiah. Format: 1,000,000 for 1 million, 100,000 for 100k. Never use negative numbers, the transaction type is determined by context words like \"spent\", \"bought\", \"earned\", \"received\")", NL,
      "  - notes (details of the transaction, containing items bought)", NL,
      "  - category (">> \o Join(TransactionCategoryList, " / ") \o <<")">>

\* a variant that asks for the account fields in both modes
PromptFields_AccountsInBothModes(params) ==
    CommonFields
    \o <<NL, "  - destination_number", NL, "  - source_account (only ">>
    \o Join(SourceAccountList, " / ")
    \o (IF params.IsImage THEN <<")", NL, "  - file_id ", params.FileID>>
        ELSE <<")", NL, "  - file_id should be empty">>)

\* the variable "fields" of BuildPrompt
PromptFields(params) ==
    IF params.IsImage
    THEN CommonFields
         \o <<NL, "  - destination_number", NL, "  - source_account (only ">>
         \o Join(SourceAccountList, " / ")
         \o <<")", NL, "  - file_id ", params.FileID>>
    ELSE CommonFields \o <<NL, "  - file_id should be empty">>

\* the variable "inputDesc"
InputDesc(params) ==
    IF params.IsImage THEN <<"from the image">>
    ELSE <<"from the following message: ", params.Message>>

\* the variable "dateLine"
DateLine(params) ==
    IF params.IsImage THEN <<>>
    ELSE <<"  - transaction_date should be ", params.CurrentDate,
           " (format always YYYY-MM-DD)", NL>>

\* a variant that writes the given file id into the example in both modes
ExampleFileID_InBothModes(params) == params.FileID

\* the variable "exampleFileID"
ExampleFileID(params) == IF params.IsImage THEN params.FileID ELSE ""

\* BuildPrompt
BuildPrompt(params) ==
    <<"Please extract the following data ">> \o InputDesc(params)
    \o <<" and return it as valid JSON.", NL, NL>>
    \o PromptFields(params) \o <<NL>>
    \o DateLine(params)
    \o <<"IMPORTANT:", NL,
         "Respond ONLY with raw JSON.", NL,
         "No explanation, no formatting, no code blocks.", NL, NL,
         "Example:", NL,
         "{", NL,
         "  \"title\": \"Spent on Lunch at ABC Cafe\",", NL,
         "  \"transaction_date\": \"2025-03-30\",", NL,
         "  \"amount\": \"150,000\",", NL,
         "  \"notes\": \"Lunch payment at ABC cafe - always use positive amounts regardless of whether it's spending or earning\",", NL,
         "  \"destination_number\": \"0524012911\",", NL,
         "  \"source_account\": \"Gopay\",", NL,
         "  \"category\": \"Eating Out\",", NL,
         "  \"file_id\": \"", ExampleFileID(params), "\"", NL,
         "}">>

(***************************************************************************)
(* The Google Sheets adapter.                                              *)
(***************************************************************************)
ZeroSummary ==
    [Category |-> "", MonthlyExpenses |-> "", MonthlyBudget |-> "",
     BudgetLeft |-> "", Quota |-> "", QuotaLeft |-> ""]

\* os.Getenv("GOOGLE_SPREADSHEET_ID")
SpreadsheetId == "sheet-1"

\* time.Now().In(loc).Format("2006-01-02 15:04:05")
CreatedAt == "2025-07-10 19:00:00"

\* a variant that writes the amount as a negative number (an expense)
DetailRow_SignedAmount(trx) ==
    <<trx.TransactionDate, trx.Category, "", trx.Notes, <<"-">> \o trx.Amount,
      trx.CreatedBy, trx.FileID, CreatedAt>>

\* the row written to detailed!A:G
DetailRow(trx) ==
    <<trx.TransactionDate, trx.Category, "", trx.Notes, trx.Amount,
      trx.CreatedBy, trx.FileID, CreatedAt>>

\* a variant that fills the quota only from a row that has all six cells
SummaryOfRow_QuotaNeedsSixCells(row) ==
    [Category |-> row[1], MonthlyExpenses |-> row[2], MonthlyBudget |-> row[3],
     BudgetLeft |-> row[4],
     Quota |-> IF Len(row) > 5 THEN row[5] ELSE "",
     QuotaLeft |-> IF Len(row) > 5 THEN row[6] ELSE ""]

\* the summary built from one matching row of summary!A2:F12
SummaryOfRow(row) ==
    [Category |-> row[1], MonthlyExpenses |-> row[2], MonthlyBudget |-> row[3],
     BudgetLeft |-> row[4],
     Quota |-> IF Len(row) > 4 THEN row[5] ELSE "",
     QuotaLeft |-> IF Len(row) > 5 THEN row[6] ELSE ""]

\* a variant of the scan that takes the first row of at least 4 cells,
\* whatever its category
RECURSIVE FindSummary_AnyCategory(_, _)
FindSummary_AnyCategory(values, category) ==
    IF values = <<>> THEN ZeroSummary
    ELSE IF Len(Head(values)) >= 4
    THEN SummaryOfRow(Head(values))
    ELSE FindSummary_AnyCategory(Tail(values), category)

\* the scan "for _, row := range summaryValues.Values" with its break
RECURSIVE FindSummary(_, _)
FindSummary(values, category) ==
    IF values = <<>> THEN ZeroSummary
    ELSE IF Len(Head(values)) >= 4 /\ Head(values)[1] = category
    THEN SummaryOfRow(Head(values))
    ELSE FindSummary(Tail(values), category)

\* the requests AppendRow sends to the Sheets API, in the order it sends
\* them: Values.Append on detailed!A:G, Values.Get on summary!A2:F12
ValuesAppend == "Append detailed!A:G"
ValuesGet == "Get summary!A2:F12"

\* a variant that reads the summary window before it appends the row
AppendRow_ReadSummaryFirst(trx, rows, io) ==
    IF ~io.tzOk
    THEN [summary |-> ZeroSummary,
          err |-> WithComponent(
                     WithContext(NewConfigError("failed to load timezone",
                                                PlainError("unknown time zone")),
                                 "timezone", "Asia/Bangkok"),
                     "spreadsheet-client"),
          rows |-> rows, calls |-> <<>>]
    ELSE IF ~io.appendOk
    THEN [summary |-> ZeroSummary,
          err |-> WithComponent(
                     WithContext(
                         WithContext(NewSpreadsheetError("failed to insert data to sheet",
                                                         PlainError("googleapi error")),
                                     "spreadsheet_id", SpreadsheetId),
                         "range", "detailed!A:G"),
                     "spreadsheet-client"),
          rows |-> rows, calls |-> <<ValuesGet, ValuesAppend>>]
    ELSE IF ~io.getOk
    THEN [summary |-> ZeroSummary, err |-> NilError,
          rows |-> Append(rows, DetailRow(trx)),
          calls |-> <<ValuesGet, ValuesAppend>>]
    ELSE [summary |-> FindSummary(io.values, trx.Category), err |-> NilError,
          rows |-> Append(rows, DetailRow(trx)),
          calls |-> <<ValuesGet, ValuesAppend>>]

\* a variant that reports a failed summary read as a failure of the call
AppendRow_FailOnSummaryError(trx, rows, io) ==
    IF ~io.tzOk
    THEN [summary |-> ZeroSummary,
          err |-> WithComponent(
                     WithContext(NewConfigError("failed to load timezone",
                                                PlainError("unknown time zone")),
                                 "timezone", "Asia/Bangkok"),
                     "spreadsheet-client"),
          rows |-> rows, calls |-> <<>>]
    ELSE IF ~io.appendOk
    THEN [summary |-> ZeroSummary,
          err |-> WithComponent(
                     WithContext(
                         WithContext(NewSpreadsheetError("failed to insert data to sheet",
                                                         PlainError("googleapi error")),
                                     "spreadsheet_id", SpreadsheetId),
                         "range", "detailed!A:G"),
                     "spreadsheet-client"),
          rows |-> rows, calls |-> <<ValuesAppend>>]
    ELSE IF ~io.getOk
    THEN [summary |-> ZeroSummary,
          err |-> WithComponent(
                     WithContext(
                         WithContext(NewSpreadsheetError("failed to get summary data",
                                                         PlainError("googleapi error")),
                                     "spreadsheet_id", SpreadsheetId),
                         "range", "summary!A2:F12"),
                     "spreadsheet-client"),
          rows |-> Append(rows, DetailRow(trx)),
          calls |-> <<ValuesAppend, ValuesGet>>]
    ELSE [summary |-> FindSummary(io.values, trx.Category), err |-> NilError,
          rows |-> Append(rows, DetailRow(trx)),
          calls |-> <<ValuesAppend, ValuesGet>>]

\* SpreadsheetService.AppendRow on the detail table rows.  io names the
\* outcome of the calls it makes: tzOk (time.LoadLocation), appendOk
\* (Values.Append), getOk and values (Values.Get of the summary window).
AppendRow(trx, rows, io) ==
    IF ~io.tzOk
    THEN [summary |-> ZeroSummary,
          err |-> WithComponent(
                     WithContext(NewConfigError("failed to load timezone",
                                                PlainError("unknown time zone")),
                                 "timezone", "Asia/Bangkok"),
                     "spreadsheet-client"),
          rows |-> rows, calls |-> <<>>]
    ELSE IF ~io.appendOk
    THEN [summary |-> ZeroSummary,
          err |-> WithComponent(
                     WithContext(
                         WithContext(NewSpreadsheetError("failed to insert data to sheet",
                                                         PlainError("googleapi error")),
                                     "spreadsheet_id", SpreadsheetId),
                         "range", "detailed!A:G"),
                     "spreadsheet-client"),
          rows |-> rows, calls |-> <<ValuesAppend>>]
    ELSE IF ~io.getOk
    THEN [summary |-> ZeroSummary, err |-> NilError,
          rows |-> Append(rows, DetailRow(trx)),
          calls |-> <<ValuesAppend, ValuesGet>>]
    ELSE [summary |-> FindSummary(io.values, trx.Category), err |-> NilError,
          rows |-> Append(rows, DetailRow(trx)),
          calls |-> <<ValuesAppend, ValuesGet>>]

(***************************************************************************)
(* The transaction service.                                                *)
(***************************************************************************)
\* TransactionService.SaveTransaction: "summary := AppendRow(...)" keeps the
\* summary of the append and nothing else of its outcome, and the only
\* return statement of the method is "return summary, nil".
SaveTransaction(trx, rows, io) ==
    LET r == AppendRow(trx, rows, io) IN
    [summary |-> r.summary, err |-> NilError, rows |-> r.rows, calls |-> r.calls]

\* TransactionService.HandleTextInput
HandleTextInput(user, r) ==
    LET res == TextToTransaction(r) IN
    IF res.err.type # "nil" THEN [trx |-> NilTransaction, err |-> res.err]
    ELSE [trx |-> Ptr([res.trx.val EXCEPT !.CreatedBy = user]), err |-> NilError]

\* a variant that stamps the uploader only when the backend named no creator
HandleImageInput_KeepBackendCreator(path, user, fs, r, removeOk) ==
    LET res == ReadImageToTransaction(path, fs, r, removeOk) IN
    IF res.err.type # "nil"
    THEN [trx |-> NilTransaction, err |-> res.err, fs |-> res.fs,
          remove |-> res.remove]
    ELSE [trx |-> Ptr([res.trx.val EXCEPT
                          !.CreatedBy = IF @ = "" THEN user ELSE @]),
          err |-> NilError, fs |-> res.fs, remove |-> res.remove]

\* TransactionService.HandleImageInput
HandleImageInput(path, user, fs, r, removeOk) ==
    LET res == ReadImageToTransaction(path, fs, r, removeOk) IN
    IF res.err.type # "nil"
    THEN [trx |-> NilTransaction, err |-> res.err, fs |-> res.fs,
          remove |-> res.remove]
    ELSE [trx |-> Ptr([res.trx.val EXCEPT !.CreatedBy = user]),
          err |-> NilError, fs |-> res.fs, remove |-> res.remove]

(***************************************************************************)
(* The chat handler: what handlePhoto and handleMessage reply.  Texts that *)
(* are parsed as numbers are character sequences.                          *)
(***************************************************************************)
DecimalDigits == <<"0", "1", "2", "3", "4", "5", "6", "7", "8", "9">>

IsDigit(c) == c \in {"0", "1", "2", "3", "4", "5", "6", "7", "8", "9"}
DigitValue(c) == (CHOOSE i \in 1..10 : DecimalDigits[i] = c) - 1
AllDigits(s) == \A i \in 1..Len(s) : IsDigit(s[i])

RECURSIVE DecimalValue(_)
DecimalValue(s) ==
    IF s = <<>> THEN 0
    ELSE 10 * DecimalValue(SubSeq(s, 1, Len(s) - 1)) + DigitValue(s[Len(s)])

\* position of the first "." of s, 0 when s has none
DotAt(s) ==
    IF \E i \in 1..Len(s) : s[i] = "."
    THEN CHOOSE i \in 1..Len(s) :
            s[i] = "." /\ \A j \in 1..(i - 1) : s[j] # "."
    ELSE 0

\* strconv.ParseFloat(s, 64) on texts made of a sign, digits, "." and
\* characters no number is written with (",", "/", " ", "n", "a"): the text
\* is a number when it is an optional sign and digits with at most one "."
\* and at least one digit; otherwise the call returns 0 and a syntax error.
\* neg says whether the value is below zero, int is the value cut to an
\* integer, as int64(f) cuts it.
ParseFloat(s) ==
    LET signed == s # <<>> /\ s[1] \in {"-", "+"}
        body == IF signed THEN Tail(s) ELSE s
        dot == DotAt(body)
        intPart == IF dot = 0 THEN body ELSE SubSeq(body, 1, dot - 1)
        fracPart == IF dot = 0 THEN <<>> ELSE SubSeq(body, dot + 1, Len(body))
        ok == /\ AllDigits(intPart)
              /\ AllDigits(fracPart)
              /\ Len(intPart) + Len(fracPart) > 0
        minus == signed /\ s[1] = "-"
        whole == DecimalValue(intPart)
    IN IF ~ok
       THEN [err |-> PlainError("invalid syntax"), neg |-> FALSE, int |-> 0]
       ELSE [err |-> NilError,
             neg |-> minus /\ (whole > 0 \/ DecimalValue(fracPart) > 0),
             int |-> IF minus THEN 0 - whole ELSE whole]

\* fmt.Sprintf("%d", n)
RECURSIVE Itoa(_)
Itoa(n) ==
    IF n < 0 THEN <<"-">> \o Itoa(0 - n)
    ELSE IF n < 10 THEN <<DecimalDigits[n + 1]>>
    ELSE Itoa(n \div 10) \o <<DecimalDigits[(n % 10) + 1]>>

\* the loop of formatThousands from the character at position i on
RECURSIVE GroupFrom(_, _)
GroupFrom(s, i) ==
    IF i > Len(s) THEN <<>>
    ELSE (IF i # 1 /\ (Len(s) - (i - 1)) % 3 = 0 THEN <<",">> ELSE <<>>)
         \o <<s[i]>> \o GroupFrom(s, i + 1)

formatThousands(n) == GroupFrom(Itoa(n), 1)

formatRupiah(amount) ==
    LET f == ParseFloat(amount) IN
    IF f.err.type # "nil" THEN <<"R", "p", " ">> \o amount
    ELSE <<"R", "p", " ">> \o formatThousands(f.int)

\* the characters of the texts that the cells of the summary sheet hold
Spelling ==
    ("" :> <<>>)
    @@ ("4000" :> <<"4", "0", "0", "0">>)
    @@ ("700" :> <<"7", "0", "0">>)
    @@ ("0" :> <<"0">>)
    @@ ("-0" :> <<"-", "0">>)
    @@ ("-200" :> <<"-", "2", "0", "0">>)
    @@ ("-20" :> <<"-", "2", "0">>)
    @@ ("-0.5" :> <<"-", "0", ".", "5">>)
    @@ ("-1,000" :> <<"-", "1", ",", "0", "0", "0">>)
    @@ ("n/a" :> <<"n", "/", "a">>)

\* "https://docs.google.com/spreadsheets/d/" + spreadsheetId
SpreadsheetLink == <<"https://docs.google.com/spreadsheets/d/", SpreadsheetId>>

\* the heads of the two reply texts (each ends with a check mark)
SavedPhoto == "Saved photo"
SavedText == "Saved text"

\* a variant that warns whenever the transaction carries a message
WarningLine_WheneverMessage(trx, summary) ==
    IF trx.WarningMessage # "" THEN <<NL, NL, trx.WarningMessage>> ELSE <<>>

\* the end of the reply text: "\n\n" + warning sign + WarningMessage, or
\* nothing.  The errors of the two ParseFloat calls are dropped.
WarningLine(trx, summary) ==
    LET budgetLeft == ParseFloat(Spelling[summary.BudgetLeft])
        quotaLeft == ParseFloat(Spelling[summary.QuotaLeft])
    IN IF (budgetLeft.neg \/ quotaLeft.neg) /\ trx.WarningMessage # ""
       THEN <<NL, NL, trx.WarningMessage>>
       ELSE <<>>

\* msgText: the values put in for the verbs of the format string, and the
\* warning line
SavedReply(head, trx, summary) ==
    [head |-> head,
     Category |-> trx.Category,
     Amount |-> formatRupiah(trx.Amount),
     Notes |-> trx.Notes,
     Link |-> SpreadsheetLink,
     MonthlyExpenses |-> summary.MonthlyExpenses,
     MonthlyBudget |-> summary.MonthlyBudget,
     BudgetLeft |-> summary.BudgetLeft,
     Quota |-> summary.Quota,
     QuotaLeft |-> summary.QuotaLeft,
     warning |-> WarningLine(trx, summary)]

\* the calls a handler makes, as the mocks of the handler record them
CallHandleTextInput == "HandleTextInput"
CallHandleImageInput == "HandleImageInput"
CallSaveTransaction == "SaveTransaction"
CallSend == "Send"

\* a variant that saves before it looks at the error of the extraction
handleMessage_SaveBeforeCheck(res, rows, o) ==
    LET saved == SaveTransaction(res.trx.val, rows, o) IN
    IF res.err.type # "nil"
    THEN [calls |-> <<CallSaveTransaction>>, sent |-> <<>>]
    ELSE [calls |-> <<CallSaveTransaction, CallSend>>,
          sent |-> <<SavedReply(SavedText, res.trx.val, saved.summary)>>]

\* handleMessage once HandleTextInput has returned res: it logs the error
\* and returns, or saves (the error of SaveTransaction is dropped:
\* "summary, _ :=") and sends the reply.
handleMessage(res, rows, o) ==
    IF res.err.type # "nil"
    THEN [calls |-> <<>>, sent |-> <<>>]
    ELSE LET saved == SaveTransaction(res.trx.val, rows, o) IN
         [calls |-> <<CallSaveTransaction, CallSend>>,
          sent |-> <<SavedReply(SavedText, res.trx.val, saved.summary)>>]

\* handlePhoto once HandleImageInput has returned res
handlePhoto(res, rows, o) ==
    IF res.err.type # "nil"
    THEN [calls |-> <<>>, sent |-> <<>>]
    ELSE LET saved == SaveTransaction(res.trx.val, rows, o) IN
         [calls |-> <<CallSaveTransaction, CallSend>>,
          sent |-> <<SavedReply(SavedPhoto, res.trx.val, saved.summary)>>]

(***************************************************************************)
(* The chat handler: the list of stored files and the commands on it.  The *)
(* text of a command is given as strings.Split(text, " ") sees it: the     *)
(* command word and the words after it, each a character sequence.         *)
(***************************************************************************)
\* time.Now()
Now == "2025-07-10 19:00:00"

StoredFile(fileID, fileName, user) ==
    [FileID |-> fileID, FileName |-> fileName, User |-> user, Date |-> Now]

\* fmt.Sprintf("%s.jpg", fileID)
JpgName == ("photo1" :> "photo1.jpg")

\* "downloads/" + fileName
LocalPath ==
    ("photo1.jpg" :> "downloads/photo1.jpg")
    @@ ("report.pdf" :> "downloads/report.pdf")

\* strconv.Atoi on a sign and digits
Atoi(s) ==
    LET signed == s # <<>> /\ s[1] \in {"-", "+"}
        body == IF signed THEN Tail(s) ELSE s
    IN IF body = <<>> \/ ~AllDigits(body)
       THEN [err |-> PlainError("invalid syntax"), val |-> 0]
       ELSE [err |-> NilError,
             val |-> IF signed /\ s[1] = "-" THEN 0 - DecimalValue(body)
                     ELSE DecimalValue(body)]

\* parseIndexArg: parts are the words of the text, the command word first
parseIndexArg(parts, stored) ==
    IF Len(parts) < 2
    THEN [index |-> -1, err |-> PlainError("missing index")]
    ELSE LET i == Atoi(parts[2]) IN
         IF i.err.type # "nil" \/ i.val < 1 \/ i.val > Len(stored)
         THEN [index |-> -1, err |-> PlainError("invalid index")]
         ELSE [index |-> i.val - 1, err |-> NilError]

\* what a handler sent last: a text, or a file of downloads/ as a photo or
\* as a document.  index is the position in storedFiles of the file sent.
NothingSent == [kind |-> "none", text |-> "", names |-> <<>>, index |-> -1, path |-> ""]
TextMessage(text, names) ==
    [kind |-> "text", text |-> text, names |-> names, index |-> -1, path |-> ""]
FileMessage(kind, caption, index, fileName) ==
    [kind |-> kind, text |-> caption, names |-> <<fileName>>, index |-> index,
     path |-> LocalPath[fileName]]

\* handleDocument: the document is listed; nothing is downloaded
handleDocument(fileID, fileName, user, stored) ==
    [stored |-> Append(stored, StoredFile(fileID, fileName, user)),
     sent |-> TextMessage("Saved", <<fileName>>)]

\* handleListCommand
handleListCommand(stored) ==
    IF Len(stored) = 0 THEN TextMessage("No files received yet.", <<>>)
    ELSE TextMessage("list", [i \in 1..Len(stored) |-> stored[i].FileName])

\* handleViewCommand: storedFiles[index] is sent as a photo
handleViewCommand(parts, stored) ==
    LET arg == parseIndexArg(parts, stored) IN
    IF arg.err.type # "nil" THEN TextMessage("Usage: /view <number>", <<>>)
    ELSE FileMessage("photo", "Viewing", arg.index + 1,
                     stored[arg.index + 1].FileName)

\* handleDownloadCommand: storedFiles[index] is sent as a document
handleDownloadCommand(parts, stored) ==
    LET arg == parseIndexArg(parts, stored) IN
    IF arg.err.type # "nil" THEN TextMessage("Usage: /download <number>", <<>>)
    ELSE FileMessage("document", "Download", arg.index + 1,
                     stored[arg.index + 1].FileName)

\* handlePhoto as a whole, on the list of stored files and on downloads/:
\* a failed download returns before the photo is listed; a listed photo is
\* given to HandleImageInput, which removes the file once the backend has
\* answered.
handlePhotoFiles(fileID, user, stored, fs, download, r, removeOk, o) ==
    LET fileName == JpgName[fileID]
        localPath == LocalPath[fileName]
    IN IF download = "no file"
       THEN [stored |-> stored, fs |-> fs, sent |-> NothingSent]
       ELSE IF download = "copy failed"
       THEN [stored |-> stored, fs |-> fs \cup {localPath}, sent |-> NothingSent]
       ELSE LET res == HandleImageInput(localPath, user, fs \cup {localPath},
                                        r, removeOk)
                h == handlePhoto([trx |-> res.trx, err |-> res.err], <<>>, o)
            IN [stored |-> Append(stored, StoredFile(fileID, fileName, user)),
                fs |-> res.fs,
                sent |-> IF h.sent = <<>> THEN NothingSent
                         ELSE TextMessage(h.sent[1].head, <<>>)]

(***************************************************************************)
(* Start-up.  A dependency is given by its dynamic type; the bot runs only *)
(* with a *spreadsheet.SpreadsheetService and a *gemini.GeminiClient.      *)
(* botOutcome is what the bot does once it is created and started.         *)
(***************************************************************************)
\* ErrEnvVarMissing(name): "required environment variable not set: <name>"
ErrEnvVarMissing(name) ==
    [type |-> "ErrEnvVarMissing", code |-> "", severity |-> "", component |-> "",
     message |-> "required environment variable not set", cause |-> name,
     context |-> NoContext]

RealSpreadsheetService == "*spreadsheet.SpreadsheetService"
RealGeminiClient == "*gemini.GeminiClient"

\* a variant that checks the API key before the token
startBotWithDeps_KeyFirst(telegramToken, apiKey, spreadsheetService, geminiClient, botOutcome) ==
    IF apiKey = ""
    THEN [err |-> ErrEnvVarMissing("GEMINI_API_KEY"), started |-> FALSE]
    ELSE IF telegramToken = ""
    THEN [err |-> ErrEnvVarMissing("TELEGRAM_BOT_TOKEN"), started |-> FALSE]
    ELSE IF spreadsheetService = RealSpreadsheetService /\ geminiClient = RealGeminiClient
    THEN IF botOutcome = "handler error"
         THEN [err |-> PlainError("telegram: unauthorized"), started |-> FALSE]
         ELSE [err |-> IF botOutcome = "start error"
                       THEN PlainError("telegram: update loop failed") ELSE NilError,
               started |-> TRUE]
    ELSE [err |-> NilError, started |-> FALSE]

\* startBotWithDeps: started says that telegramHandler.Start was called
startBotWithDeps(telegramToken, apiKey, spreadsheetService, geminiClient, botOutcome) ==
    IF telegramToken = ""
    THEN [err |-> ErrEnvVarMissing("TELEGRAM_BOT_TOKEN"), started |-> FALSE]
    ELSE IF apiKey = ""
    THEN [err |-> ErrEnvVarMissing("GEMINI_API_KEY"), started |-> FALSE]
    ELSE IF spreadsheetService = RealSpreadsheetService /\ geminiClient = RealGeminiClient
    THEN IF botOutcome = "handler error"
         THEN [err |-> PlainError("telegram: unauthorized"), started |-> FALSE]
         ELSE [err |-> IF botOutcome = "start error"
                       THEN PlainError("telegram: update loop failed") ELSE NilError,
               started |-> TRUE]
    ELSE [err |-> NilError, started |-> FALSE]

(***************************************************************************)
(* Inputs of the model.                                                    *)
(***************************************************************************)
RECURSIVE SeqsUpTo(_, _)
SeqsUpTo(S, n) ==
    IF n = 0 THEN {<<>>}
    ELSE LET shorter == SeqsUpTo(S, n - 1) IN
         shorter \cup {Append(q, x) : q \in shorter, x \in S}

\* {"amount":"-100","title":"Groceries","notes":"test","category":"Food"}
ObjGroceries ==
    [EmptyObject EXCEPT !.amount = JStr(<<"-", "1", "0", "0">>),
                        !.title = JStr("Groceries"),
                        !.notes = JStr("test"),
                        !.category = JStr("Food")]

\* {"amount":"50","category":"Transport","created_by":"mallory",
\*  "warning_message":"over budget"}
ObjTransport ==
    [EmptyObject EXCEPT !.amount = JStr(<<"5", "0">>),
                        !.category = JStr("Transport"),
                        !.created_by = JStr("mallory"),
                        !.warning_message = JStr("over budget")]

\* {"amount":"-7","title":5,"category":"Transport"}: title is not a string
ObjTitleNumber ==
    [EmptyObject EXCEPT !.amount = JStr(<<"-", "7">>),
                        !.title = JNum("5"),
                        !.category = JStr("Transport")]

\* {"amount":"--1","notes":"refund"}
ObjDoubleMinus ==
    [EmptyObject EXCEPT !.amount = JStr(<<"-", "-", "1">>),
                        !.notes = JStr("refund")]

\* Content == nil
CandNilContent == NilContent
\* Content with no parts
CandNoParts == Candidate(<<>>)
\* two text fragments that make  ```json\n{...}\n```
CandFenced ==
    Candidate(<<TextPart(<<Tok("fence_json"), Tok("ws")>>),
                TextPart(<<ObjTok(ObjGroceries), Tok("ws"), Tok("fence")>>)>>)
\* a blob part and one raw JSON fragment with white space around it
CandRaw ==
    Candidate(<<BlobPart, TextPart(<<Tok("ws"), ObjTok(ObjTransport), Tok("ws")>>)>>)
\* prose before the object: not valid JSON
CandProse == Candidate(<<TextPart(<<Tok("prose"), ObjTok(ObjGroceries)>>)>>)
\* valid JSON that does not fit the struct
CandTitleNumber == Candidate(<<TextPart(<<ObjTok(ObjTitleNumber)>>)>>)
CandDoubleMinus == Candidate(<<TextPart(<<ObjTok(ObjDoubleMinus)>>)>>)

CandidateSet ==
    {CandNilContent, CandNoParts, CandFenced, CandRaw, CandProse,
     CandTitleNumber, CandDoubleMinus}

NoResponse == [err |-> NilError, candidates |-> <<>>]

\* what Model.GenerateContent can return
Responses ==
    {[err |-> NilError, candidates |-> cs] : cs \in SeqsUpTo(CandidateSet, MaxCandidates)}
    \cup {[err |-> PlainError("rpc error"), candidates |-> <<>>]}

Uploaders == {"alice"}

\* downloads/<fileID>.jpg
ImagePaths == {"downloads/photo1.jpg"}

\* rows of the summary sheet; the API drops trailing empty cells
SummaryRowSet ==
    {<<"Food", "1000", "5000", "4000">>,
     <<"Food", "1000", "5000", "-200", "300">>,
     <<"Transport", "200", "900", "700", "80", "-20">>,
     <<"Food", "900", "5000">>}

SummaryTables == SeqsUpTo(SummaryRowSet, MaxSummaryRows)

\* outcomes of the calls AppendRow makes
LedgerOutcomes ==
    {[tzOk |-> FALSE, appendOk |-> FALSE, getOk |-> FALSE, values |-> <<>>],
     [tzOk |-> TRUE, appendOk |-> FALSE, getOk |-> FALSE, values |-> <<>>],
     [tzOk |-> TRUE, appendOk |-> TRUE, getOk |-> FALSE, values |-> <<>>]}
    \cup {[tzOk |-> TRUE, appendOk |-> TRUE, getOk |-> TRUE, values |-> v] :
            v \in SummaryTables}

NoOutcome == [tzOk |-> TRUE, appendOk |-> TRUE, getOk |-> TRUE, values |-> <<>>]

(***************************************************************************)
(* State.                                                                  *)
(***************************************************************************)
VARIABLES
    pc,           \* where the handling of the current update stands
    mode,         \* "none", "text" or "image"
    uploader,     \* msg.From.UserName of the current update
    imgPath,      \* local path of the downloaded photo ("" in text mode)
    files,        \* files that exist under downloads/
    resp,         \* what Model.GenerateContent returned for this update
    aiResult,     \* what the Gemini adapter returned: [trx, err]
    result,       \* what HandleTextInput / HandleImageInput returned
    io,           \* outcome of the sheet calls made by AppendRow
    appendResult, \* what AppendRow returned: [summary, err]
    saveResult,   \* what SaveTransaction returned: [summary, err]
    detailed,     \* rows of the detail table appended so far
    sheetCalls,   \* requests AppendRow sent to the Sheets API for this update
    removal,      \* outcome of os.Remove for the photo of the current update
    handlerCalls, \* calls the handler made for the current update, in order
    sent,         \* messages the handler sent for the current update
    amountIn,     \* argument given to ensurePositiveAmount
    amountOut,    \* value of ensurePositiveAmount^applied(amountIn)
    applied,      \* how many times ensurePositiveAmount was applied
    ctor,         \* name of the constructor that made appErr ("" before)
    appErr,       \* an error value of the errors package
    classified,   \* what IsRetryableError and IsCriticalError say of appErr
    fn,           \* the function given to SafeExecute
    opName,       \* the context string given to SafeExecute
    safeResult,   \* what the call of SafeExecute did
    promptParams, \* the PromptParams given to BuildPrompt
    prompt,       \* the prompt BuildPrompt returned (<<>> before the call)
    startArgs,    \* the arguments given to startBotWithDeps
    startResult,  \* what the call of startBotWithDeps did
    replyArgs,    \* the transaction and summary cells a reply is made of
    reply,        \* the reply the handler sent for replyArgs (<<>> before)
    storedFiles,  \* the package variable storedFiles
    served        \* what a command or an upload handler sent last

vars ==
    <<pc, mode, uploader, imgPath, files, resp, aiResult, result, io,
      appendResult, saveResult, detailed, sheetCalls, removal, handlerCalls,
      sent, amountIn,
      amountOut,
      applied, ctor, appErr, classified, fn, opName, safeResult,
      promptParams, prompt, startArgs, startResult, replyArgs, reply,
      storedFiles, served>>

requestVars == <<mode, uploader, imgPath, resp, aiResult, result, removal>>
ledgerVars == <<io, appendResult, saveResult, detailed, sheetCalls>>
amountVars == <<amountIn, amountOut, applied>>
errorVars == <<ctor, appErr, classified>>
chatVars == <<handlerCalls, sent>>
pipelineVars == <<pc, files, requestVars, ledgerVars, chatVars>>
\* state of the packages that are exercised on their own
safeVars == <<fn, opName, safeResult>>
promptVars == <<promptParams, prompt>>
startVars == <<startArgs, startResult>>
replyVars == <<replyArgs, reply>>
storeVars == <<storedFiles, served>>
libraryVars ==
    <<amountVars, errorVars, safeVars, promptVars, startVars, replyVars,
      storeVars>>

NoResult == [trx |-> NilTransaction, err |-> NilError]
NoSummary == [summary |-> ZeroSummary, err |-> NilError]

NoClass == [retryable |-> FALSE, critical |-> FALSE]

\* no update is being handled, nothing was downloaded or appended
PipelineIdle ==
    /\ pc = "idle"
    /\ mode = "none"
    /\ uploader = ""
    /\ imgPath = ""
    /\ files = {}
    /\ resp = NoResponse
    /\ aiResult = NoResult
    /\ result = NoResult
    /\ io = NoOutcome
    /\ appendResult = NoSummary
    /\ saveResult = NoSummary
    /\ detailed = <<>>
    /\ sheetCalls = <<>>
    /\ removal = RemoveNotCalled
    /\ handlerCalls = <<>>
    /\ sent = <<>>

AmountIdle ==
    /\ amountIn = <<>>
    /\ amountOut = <<>>
    /\ applied = 0

ErrorsIdle ==
    /\ ctor = ""
    /\ appErr = NilError
    /\ classified = NoClass

NotExecuted == [done |-> FALSE, err |-> NilError, escaped |-> FALSE, logged |-> FALSE]

SafeIdle ==
    /\ fn = Returns(NilError)
    /\ opName = ""
    /\ safeResult = NotExecuted

PromptIdle ==
    /\ promptParams = PromptParams(FALSE, "", "", "")
    /\ prompt = <<>>

StartArgs(token, key, sheets, ai) ==
    [telegramToken |-> token, apiKey |-> key, spreadsheetService |-> sheets,
     geminiClient |-> ai]

NotStarted == [done |-> FALSE, err |-> NilError, started |-> FALSE]

StartIdle ==
    /\ startArgs = StartArgs("", "", "nil", "nil")
    /\ startResult = NotStarted

\* a transaction of category "Food" and the two cells of its summary row
\* that the reply parses
ReplyArgs(kind, warning, budgetLeft, quotaLeft) ==
    [kind |-> kind,
     trx |-> [ZeroTransaction EXCEPT !.Category = "Food",
                                     !.Amount = <<"1", "5", "0", "0">>,
                                     !.CreatedBy = "alice",
                                     !.WarningMessage = warning],
     budgetLeft |-> budgetLeft,
     quotaLeft |-> quotaLeft]

ReplyIdle ==
    /\ replyArgs = ReplyArgs("", "", "", "")
    /\ reply = <<>>

StoreIdle ==
    /\ storedFiles = <<>>
    /\ served = NothingSent

Init ==
    /\ PipelineIdle
    /\ AmountIdle
    /\ ErrorsIdle
    /\ SafeIdle
    /\ PromptIdle
    /\ StartIdle
    /\ ReplyIdle
    /\ StoreIdle

(***************************************************************************)
(* handlePhoto up to the download: downloadFile creates the local file and *)
(* fills it, or fails and the handler returns.  It fails before os.Create  *)
(* (no file) or in io.Copy, after os.Create has made the file.             *)
(***************************************************************************)
DownloadOutcomes == {"ok", "no file", "copy failed"}

DownloadFile ==
    /\ pc = "idle"
    /\ Len(detailed) < MaxRows
    /\ \E user \in Uploaders, path \in ImagePaths, outcome \in DownloadOutcomes :
        CASE outcome = "ok" ->
               /\ files' = files \cup {path}
               /\ pc' = "downloaded"
               /\ mode' = "image"
               /\ uploader' = user
               /\ imgPath' = path
          [] outcome = "copy failed" ->
               /\ files' = files \cup {path}
               /\ UNCHANGED <<pc, mode, uploader, imgPath>>
          [] outcome = "no file" ->
               /\ UNCHANGED <<files, pc, mode, uploader, imgPath>>
    /\ UNCHANGED <<resp, aiResult, result, removal>>
    /\ UNCHANGED ledgerVars
    /\ UNCHANGED chatVars
    /\ UNCHANGED libraryVars

(***************************************************************************)
(* handlePhoto: the call of TransactionService.HandleImageInput.           *)
(***************************************************************************)
ImageInput ==
    /\ pc = "downloaded"
    /\ \E r \in Responses, removeOk \in BOOLEAN :
        LET ai == ReadImageToTransaction(imgPath, files, r, removeOk)
            res == HandleImageInput(imgPath, uploader, files, r, removeOk)
        IN /\ resp' = IF imgPath \in files THEN r ELSE NoResponse
           /\ aiResult' = [trx |-> ai.trx, err |-> ai.err]
           /\ result' = [trx |-> res.trx, err |-> res.err]
           /\ files' = res.fs
           /\ removal' = res.remove
           /\ pc' = IF res.err.type # "nil" THEN "failed" ELSE "extracted"
           /\ LET h == handlePhoto([trx |-> res.trx, err |-> res.err],
                                   detailed, NoOutcome)
              IN IF res.err.type # "nil"
                 THEN /\ handlerCalls' = <<CallHandleImageInput>> \o h.calls
                      /\ sent' = h.sent
                 ELSE /\ handlerCalls' = <<CallHandleImageInput>>
                      /\ sent' = <<>>
    /\ UNCHANGED <<mode, uploader, imgPath>>
    /\ UNCHANGED ledgerVars
    /\ UNCHANGED libraryVars

(***************************************************************************)
(* handleMessage: the call of TransactionService.HandleTextInput.          *)
(***************************************************************************)
TextInput ==
    /\ pc = "idle"
    /\ Len(detailed) < MaxRows
    /\ \E user \in Uploaders, r \in Responses :
        LET ai == TextToTransaction(r)
            res == HandleTextInput(user, r)
        IN /\ uploader' = user
           /\ resp' = r
           /\ aiResult' = ai
           /\ result' = res
           /\ pc' = IF res.err.type # "nil" THEN "failed" ELSE "extracted"
           /\ LET h == handleMessage(res, detailed, NoOutcome)
              IN IF res.err.type # "nil"
                 THEN /\ handlerCalls' = <<CallHandleTextInput>> \o h.calls
                      /\ sent' = h.sent
                 ELSE /\ handlerCalls' = <<CallHandleTextInput>>
                      /\ sent' = <<>>
    /\ mode' = "text"
    /\ UNCHANGED <<imgPath, files, removal>>
    /\ UNCHANGED ledgerVars
    /\ UNCHANGED libraryVars

(***************************************************************************)
(* handlePhoto / handleMessage: the call of SaveTransaction, which calls   *)
(* AppendRow, and the reply that is sent after it.  The backend response  *)
(* is dead once extraction has returned.                                   *)
(***************************************************************************)
Save ==
    /\ pc = "extracted"
    /\ \E o \in LedgerOutcomes :
        LET a == AppendRow(result.trx.val, detailed, o)
            sv == SaveTransaction(result.trx.val, detailed, o)
        IN /\ io' = o
           /\ appendResult' = [summary |-> a.summary, err |-> a.err]
           /\ saveResult' = [summary |-> sv.summary, err |-> sv.err]
           /\ detailed' = sv.rows
           /\ sheetCalls' = sv.calls
           /\ LET h == IF mode = "image"
                       THEN handlePhoto(result, detailed, o)
                       ELSE handleMessage(result, detailed, o)
              IN /\ handlerCalls' = handlerCalls \o h.calls
                 /\ sent' = sent \o h.sent
    /\ pc' = "saved"
    /\ resp' = NoResponse
    /\ aiResult' = NoResult
    /\ UNCHANGED <<mode, uploader, imgPath, files, result, removal>>
    /\ UNCHANGED libraryVars

(***************************************************************************)
(* The update loop takes the next update.                                  *)
(***************************************************************************)
NextUpdate ==
    /\ pc \in {"failed", "saved"}
    /\ pc' = "idle"
    /\ mode' = "none"
    /\ uploader' = ""
    /\ imgPath' = ""
    /\ resp' = NoResponse
    /\ aiResult' = NoResult
    /\ result' = NoResult
    /\ io' = NoOutcome
    /\ appendResult' = NoSummary
    /\ saveResult' = NoSummary
    /\ removal' = RemoveNotCalled
    /\ sheetCalls' = <<>>
    /\ handlerCalls' = <<>>
    /\ sent' = <<>>
    /\ UNCHANGED <<files, detailed>>
    /\ UNCHANGED libraryVars

Next ==
    \/ DownloadFile
    \/ ImageInput
    \/ TextInput
    \/ Save
    \/ NextUpdate

Spec == Init /\ [][Next]_vars

(***************************************************************************)
(* ensurePositiveAmount on its own: every string of the alphabet up to     *)
(* MaxLen, normalised once and then once more.                             *)
(***************************************************************************)
InitAmount ==
    /\ PipelineIdle
    /\ ErrorsIdle
    /\ SafeIdle
    /\ PromptIdle
    /\ StartIdle
    /\ amountIn \in AmountStrings
    /\ amountOut = amountIn
    /\ applied = 0
    /\ ReplyIdle
    /\ StoreIdle

MaxApplied == 2

Normalize ==
    /\ applied < MaxApplied
    /\ amountOut' = ensurePositiveAmount(amountOut)
    /\ applied' = applied + 1
    /\ UNCHANGED amountIn
    /\ UNCHANGED pipelineVars
    /\ UNCHANGED replyVars
    /\ UNCHANGED storeVars
    /\ UNCHANGED errorVars
    /\ UNCHANGED safeVars
    /\ UNCHANGED promptVars
    /\ UNCHANGED startVars

NextAmount == Normalize

SpecAmount == InitAmount /\ [][NextAmount]_vars

(***************************************************************************)
(* The errors package on its own: an error is made by one of the           *)
(* constructors (or is an error of another package), may be annotated by   *)
(* its caller, may be converted by toAppError, and is classified.          *)
(***************************************************************************)
Constructors ==
    {"NewConfigError", "NewTelegramError", "NewTelegramCriticalError",
     "NewGeminiError", "NewGeminiTimeoutError", "NewSpreadsheetError",
     "NewSpreadsheetCriticalError", "NewFileError", "NewValidationError",
     "NewTransactionError", "NewNetworkError", "NewDataAccessError"}

\* the call <name>(message, cause)
Construct(name, message, cause) ==
    CASE name = "NewConfigError" -> NewConfigError(message, cause)
      [] name = "NewTelegramError" -> NewTelegramError(message, cause)
      [] name = "NewTelegramCriticalError" -> NewTelegramCriticalError(message, cause)
      [] name = "NewGeminiError" -> NewGeminiError(message, cause)
      [] name = "NewGeminiTimeoutError" -> NewGeminiTimeoutError(message, cause)
      [] name = "NewSpreadsheetError" -> NewSpreadsheetError(message, cause)
      [] name = "NewSpreadsheetCriticalError" -> NewSpreadsheetCriticalError(message, cause)
      [] name = "NewFileError" -> NewFileError(message, cause)
      [] name = "NewValidationError" -> NewValidationError(message, cause)
      [] name = "NewTransactionError" -> NewTransactionError(message, cause)
      [] name = "NewNetworkError" -> NewNetworkError(message, cause)
      [] name = "NewDataAccessError" -> NewDataAccessError(message, cause)

ErrorMessages == {"operation failed"}
ErrorCauses == {NilError, PlainError("connection refused")}
Components == {"spreadsheet-client", "gemini-client"}
ContextEntries == {<<"range", "detailed!A:G">>, <<"operation", "append">>}

Classify(err) ==
    [retryable |-> IsRetryableError(err), critical |-> IsCriticalError(err)]

InitErrors ==
    /\ PipelineIdle
    /\ AmountIdle
    /\ ErrorsIdle
    /\ SafeIdle
    /\ PromptIdle
    /\ StartIdle
    /\ ReplyIdle
    /\ StoreIdle

\* errors.New<Kind>Error(message, cause)
NewError ==
    /\ ctor = ""
    /\ \E name \in Constructors, message \in ErrorMessages, cause \in ErrorCauses :
        /\ ctor' = name
        /\ appErr' = Construct(name, message, cause)
        /\ classified' = Classify(appErr')
    /\ UNCHANGED pipelineVars
    /\ UNCHANGED replyVars
    /\ UNCHANGED storeVars
    /\ UNCHANGED amountVars
    /\ UNCHANGED safeVars
    /\ UNCHANGED promptVars
    /\ UNCHANGED startVars

\* an error that does not come from the errors package
ForeignError ==
    /\ ctor = ""
    /\ \E err \in {PlainError("connection refused"),
                    Errorf("gemini generate content error", PlainError("rpc error"))} :
        /\ ctor' = "foreign"
        /\ appErr' = err
        /\ classified' = Classify(appErr')
    /\ UNCHANGED pipelineVars
    /\ UNCHANGED replyVars
    /\ UNCHANGED storeVars
    /\ UNCHANGED amountVars
    /\ UNCHANGED safeVars
    /\ UNCHANGED promptVars
    /\ UNCHANGED startVars

\* the caller annotates the error: WithContext and WithComponent
Annotate ==
    /\ appErr.type = "AppError"
    /\ \/ \E kv \in ContextEntries : appErr' = WithContext(appErr, kv[1], kv[2])
       \/ \E c \in Components : appErr' = WithComponent(appErr, c)
    /\ classified' = Classify(appErr')
    /\ UNCHANGED ctor
    /\ UNCHANGED pipelineVars
    /\ UNCHANGED replyVars
    /\ UNCHANGED storeVars
    /\ UNCHANGED amountVars
    /\ UNCHANGED safeVars
    /\ UNCHANGED promptVars
    /\ UNCHANGED startVars

\* HandleError / LogError: the error is converted by toAppError
ToAppError ==
    /\ ctor = "foreign"
    /\ appErr.type # "AppError"
    /\ appErr' = toAppError(appErr)
    /\ classified' = Classify(appErr')
    /\ UNCHANGED ctor
    /\ UNCHANGED pipelineVars
    /\ UNCHANGED replyVars
    /\ UNCHANGED storeVars
    /\ UNCHANGED amountVars
    /\ UNCHANGED safeVars
    /\ UNCHANGED promptVars
    /\ UNCHANGED startVars

NextErrors ==
    \/ NewError
    \/ ForeignError
    \/ Annotate
    \/ ToAppError

SpecErrors == InitErrors /\ [][NextErrors]_vars

(***************************************************************************)
(* SafeExecute on its own: every wrapped function and operation name of    *)
(* the sets below, executed once.                                          *)
(***************************************************************************)
ReturnedErrors ==
    {NilError, PlainError("connection refused"),
     Errorf("gemini generate content error", PlainError("rpc error"))}
    \cup {Construct(name, "operation failed", NilError) : name \in Constructors}

PanicValues ==
    {Panics("string", "simulated panic for testing"),
     Panics("string", "test panic"),
     Panics("error", "runtime error: invalid memory address or nil pointer dereference"),
     Panics("error", "runtime error: index out of range"),
     Panics("other", "42"),
     Panics("nil", "")}

WrappedFunctions == {Returns(e) : e \in ReturnedErrors} \cup PanicValues

OperationNames == {"risky operation", "test operation", ""}

InitSafe ==
    /\ PipelineIdle
    /\ AmountIdle
    /\ ErrorsIdle
    /\ fn \in WrappedFunctions
    /\ opName \in OperationNames
    /\ safeResult = NotExecuted
    /\ PromptIdle
    /\ StartIdle
    /\ ReplyIdle
    /\ StoreIdle

Execute ==
    /\ ~safeResult.done
    /\ LET r == SafeExecute(fn, opName) IN
         safeResult' = [done |-> TRUE, err |-> r.err, escaped |-> r.escaped,
                        logged |-> r.logged]
    /\ UNCHANGED <<fn, opName>>
    /\ UNCHANGED pipelineVars
    /\ UNCHANGED replyVars
    /\ UNCHANGED storeVars
    /\ UNCHANGED amountVars
    /\ UNCHANGED errorVars
    /\ UNCHANGED promptVars
    /\ UNCHANGED startVars

NextSafe == Execute

SpecSafe == InitSafe /\ [][NextSafe]_vars

(***************************************************************************)
(* BuildPrompt on its own: every PromptParams of the sets below.           *)
(***************************************************************************)
FileIDs == {"", "testfile.jpg", "photo1.jpg", "AgACAgUAAxkBAAIB.jpg"}
Messages == {"", "Transfer 100k to Budi", "spent -100 on groceries"}
CurrentDates == {"", "2025-07-10", "2025-12-31"}

InitPrompt ==
    /\ PipelineIdle
    /\ AmountIdle
    /\ ErrorsIdle
    /\ SafeIdle
    /\ promptParams \in
          {PromptParams(i, f, m, d) :
              i \in BOOLEAN, f \in FileIDs, m \in Messages, d \in CurrentDates}
    /\ prompt = <<>>
    /\ StartIdle
    /\ ReplyIdle
    /\ StoreIdle

Build ==
    /\ prompt = <<>>
    /\ prompt' = BuildPrompt(promptParams)
    /\ UNCHANGED promptParams
    /\ UNCHANGED pipelineVars
    /\ UNCHANGED replyVars
    /\ UNCHANGED storeVars
    /\ UNCHANGED amountVars
    /\ UNCHANGED errorVars
    /\ UNCHANGED safeVars
    /\ UNCHANGED startVars

NextPrompt == Build

SpecPrompt == InitPrompt /\ [][NextPrompt]_vars

(***************************************************************************)
(* startBotWithDeps on its own.                                            *)
(***************************************************************************)
TelegramTokens == {"", "dummy-token", "123456:ABC-DEF"}
ApiKeys == {"", "dummy-key", "AIzaSy-key"}
SpreadsheetDeps == {"nil", "struct {}", "spreadsheet.SpreadsheetService", RealSpreadsheetService}
GeminiDeps == {"nil", "struct {}", RealGeminiClient}
BotOutcomes == {"handler error", "start error", "stopped"}

InitStart ==
    /\ PipelineIdle
    /\ AmountIdle
    /\ ErrorsIdle
    /\ SafeIdle
    /\ PromptIdle
    /\ startArgs \in
          {StartArgs(t, k, sh, ai) :
              t \in TelegramTokens, k \in ApiKeys, sh \in SpreadsheetDeps,
              ai \in GeminiDeps}
    /\ startResult = NotStarted
    /\ ReplyIdle
    /\ StoreIdle

StartBot ==
    /\ ~startResult.done
    /\ \E botOutcome \in BotOutcomes :
        LET r == startBotWithDeps(startArgs.telegramToken, startArgs.apiKey,
                                  startArgs.spreadsheetService,
                                  startArgs.geminiClient, botOutcome)
        IN startResult' = [done |-> TRUE, err |-> r.err, started |-> r.started]
    /\ UNCHANGED startArgs
    /\ UNCHANGED pipelineVars
    /\ UNCHANGED replyVars
    /\ UNCHANGED storeVars
    /\ UNCHANGED amountVars
    /\ UNCHANGED errorVars
    /\ UNCHANGED safeVars
    /\ UNCHANGED promptVars

NextStart == StartBot

SpecStart == InitStart /\ [][NextStart]_vars

(***************************************************************************)
(* The reply on its own: the handler of a photo or of a text message from  *)
(* the return of the extraction on, for a transaction with or without a    *)
(* warning message and a summary row with the cells below.                 *)
(***************************************************************************)
WarningMessages == {"", "over budget"}
LeftCells == DOMAIN Spelling

\* the row of the summary sheet; the API drops trailing empty cells
RowWith(budgetLeft, quotaLeft) ==
    IF quotaLeft = "" THEN <<"Food", "1000", "5000", budgetLeft, "300">>
    ELSE <<"Food", "1000", "5000", budgetLeft, "300", quotaLeft>>

InitReply ==
    /\ PipelineIdle
    /\ AmountIdle
    /\ ErrorsIdle
    /\ SafeIdle
    /\ PromptIdle
    /\ StartIdle
    /\ StoreIdle
    /\ replyArgs \in
          {ReplyArgs(k, w, b, q) :
              k \in {"image", "text"}, w \in WarningMessages,
              b \in LeftCells, q \in LeftCells}
    /\ reply = <<>>

Reply ==
    /\ reply = <<>>
    /\ LET res == [trx |-> Ptr(replyArgs.trx), err |-> NilError]
           o == [tzOk |-> TRUE, appendOk |-> TRUE, getOk |-> TRUE,
                 values |-> <<RowWith(replyArgs.budgetLeft, replyArgs.quotaLeft)>>]
           h == IF replyArgs.kind = "image" THEN handlePhoto(res, <<>>, o)
                ELSE handleMessage(res, <<>>, o)
       IN reply' = h.sent
    /\ UNCHANGED replyArgs
    /\ UNCHANGED pipelineVars
    /\ UNCHANGED amountVars
    /\ UNCHANGED errorVars
    /\ UNCHANGED safeVars
    /\ UNCHANGED promptVars
    /\ UNCHANGED startVars
    /\ UNCHANGED storeVars

NextReply == Reply

SpecReply == InitReply /\ [][NextReply]_vars

(***************************************************************************)
(* The list of stored files on its own: documents and photos come in and   *)
(* the commands /list, /view and /download are given, in any order.        *)
(***************************************************************************)
MaxStored == 3

Documents == {[FileID |-> "doc1", FileName |-> "report.pdf"]}
PhotoIDs == {"photo1"}

\* what the backend and the ledger do for a photo of this specification
PhotoResponses ==
    {[err |-> PlainError("rpc error"), candidates |-> <<>>],
     [err |-> NilError, candidates |-> <<CandFenced>>]}
PhotoLedgerOutcomes ==
    {[tzOk |-> TRUE, appendOk |-> FALSE, getOk |-> FALSE, values |-> <<>>],
     [tzOk |-> TRUE, appendOk |-> TRUE, getOk |-> TRUE,
      values |-> <<<<"Food", "1000", "5000", "4000">>>>]}

\* the words after the command word
IndexArgs ==
    {<<>>, <<<<"0">>>>, <<<<"1">>>>, <<<<"2">>>>, <<<<"3">>>>, <<<<"9">>>>,
     <<<<"-", "1">>>>, <<<<"n">>>>, <<<<>>, <<"1">>>>}

InitStore ==
    /\ PipelineIdle
    /\ AmountIdle
    /\ ErrorsIdle
    /\ SafeIdle
    /\ PromptIdle
    /\ StartIdle
    /\ ReplyIdle
    /\ StoreIdle

\* what the handlers of this specification leave alone
StoreFrame ==
    /\ UNCHANGED <<pc, requestVars, ledgerVars, chatVars>>
    /\ UNCHANGED amountVars
    /\ UNCHANGED errorVars
    /\ UNCHANGED safeVars
    /\ UNCHANGED promptVars
    /\ UNCHANGED startVars
    /\ UNCHANGED replyVars

\* update.Message.Document != nil
DocumentUpdate ==
    /\ Len(storedFiles) < MaxStored
    /\ \E d \in Documents, user \in Uploaders :
        LET h == handleDocument(d.FileID, d.FileName, user, storedFiles) IN
        /\ storedFiles' = h.stored
        /\ served' = h.sent
    /\ UNCHANGED files
    /\ StoreFrame

\* update.Message.Photo != nil
PhotoUpdate ==
    /\ Len(storedFiles) < MaxStored
    /\ \E id \in PhotoIDs, user \in Uploaders, download \in DownloadOutcomes,
          r \in PhotoResponses, removeOk \in BOOLEAN, o \in PhotoLedgerOutcomes :
        LET h == handlePhotoFiles(id, user, storedFiles, files, download, r,
                                  removeOk, o)
        IN /\ storedFiles' = h.stored
           /\ files' = h.fs
           /\ served' = h.sent
    /\ StoreFrame

\* case "list"
ListCommand ==
    /\ served' = handleListCommand(storedFiles)
    /\ UNCHANGED <<storedFiles, files>>
    /\ StoreFrame

\* case "view"
ViewCommand ==
    /\ \E args \in IndexArgs :
        served' = handleViewCommand(<<<<"/", "v">>>> \o args, storedFiles)
    /\ UNCHANGED <<storedFiles, files>>
    /\ StoreFrame

\* case "download"
DownloadCommand ==
    /\ \E args \in IndexArgs :
        served' = handleDownloadCommand(<<<<"/", "d">>>> \o args, storedFiles)
    /\ UNCHANGED <<storedFiles, files>>
    /\ StoreFrame

\* default: any other command
UnknownCommand ==
    /\ served' = TextMessage("Unknown command.", <<>>)
    /\ UNCHANGED <<storedFiles, files>>
    /\ StoreFrame

NextStore ==
    \/ DocumentUpdate
    \/ PhotoUpdate
    \/ ListCommand
    \/ ViewCommand
    \/ DownloadCommand
    \/ UnknownCommand

SpecStore == InitStore /\ [][NextStore]_vars

(***************************************************************************)
(* Vocabulary of the properties.                                           *)
(***************************************************************************)
StartsWithMinus(s) == Len(s) >= 1 /\ s[1] = "-"
StartsWithOneMinus(s) == StartsWithMinus(s) /\ (Len(s) >= 2 => s[2] # "-")

\* the extraction call of the current update has returned
Extracted == pc = "extracted"
BackendFailed == pc = "failed" /\ resp.err.type # "nil"

\* the sanitized text of the candidate is one JSON object
IsObjectText(cand) ==
    /\ ~IsSkipped(cand)
    /\ Len(CandidateText(cand)) = 1
    /\ CandidateText(cand)[1].t = "object"

ObjectOf(cand) == CandidateText(cand)[1].o

\* the candidate is read and its text is not valid JSON
IsMalformedJSON(cand) == ~IsSkipped(cand) /\ ~IsObjectText(cand)

\* json.Unmarshal returns nil for the candidate
DecodesOK(cand) ==
    IsObjectText(cand) /\ \A k \in WireKeys : ObjectOf(cand)[k].kind # "number"

\* the candidate is read and json.Unmarshal returns an error for it
FailsToDecode(cand) == ~IsSkipped(cand) /\ ~DecodesOK(cand)

SuppliesAmount(cand) == DecodesOK(cand) /\ ObjectOf(cand).amount.kind = "string"

FieldOfKey ==
    [transaction_date |-> "TransactionDate", amount |-> "Amount",
     amount_currency |-> "AmountCurrency", notes |-> "Notes",
     destination_name |-> "DestinationName",
     destination_number |-> "DestinationNumber",
     source_account |-> "SourceAccount", category |-> "Category",
     title |-> "Title", file_id |-> "FileID", created_by |-> "CreatedBy",
     warning_message |-> "WarningMessage"]

\* the transaction holds, for every member the candidate supplies, the
\* candidate's value (the amount with its sign removed)
Reflects(transaction, cand) ==
    \A k \in WireKeys :
        ObjectOf(cand)[k].kind = "string" =>
            transaction[FieldOfKey[k]] =
                IF k = "amount" THEN ensurePositiveAmount(ObjectOf(cand)[k].val)
                ELSE ObjectOf(cand)[k].val

\* index of the last candidate that decodes, 0 when none does
LastDecoded(candidates) ==
    LET ok == {i \in 1..Len(candidates) : DecodesOK(candidates[i])} IN
    IF ok = {} THEN 0 ELSE CHOOSE i \in ok : \A j \in ok : j <= i

(***************************************************************************)
(* C1: ensurePositiveAmount returns a string for every input; an input     *)
(* that begins with exactly one '-' comes back without that character, and *)
(* an input that does not begin with '-' comes back unchanged.             *)
(***************************************************************************)
C1_SignRemovalLaw ==
    applied = 1 =>
        /\ amountOut \in Seq(Alphabet)
        /\ StartsWithOneMinus(amountIn) => amountOut = Tail(amountIn)
        /\ ~StartsWithMinus(amountIn) => amountOut = amountIn

C1_Witness ==
    /\ applied = 1
    /\ amountIn = <<"-", "1", "0">>
    /\ amountOut = <<"1", "0">>

(***************************************************************************)
(* C2: normalising twice gives the same string as normalising once.        *)
(***************************************************************************)
C2_Idempotent ==
    applied = 2 => amountOut = ensurePositiveAmount(amountIn)

(***************************************************************************)
(* C3: the amount of the transaction returned by TextToTransaction and by  *)
(* ReadImageToTransaction never begins with '-'.                           *)
(***************************************************************************)
C3_NoSignInAmount ==
    Extracted => ~StartsWithMinus(aiResult.trx.val.Amount)

(***************************************************************************)
(* C4: a candidate that does not decode never makes extraction return an   *)
(* error and never stops the candidates after it: extraction returns a     *)
(* transaction and a nil error whenever the backend call succeeded; a last *)
(* candidate that decodes sets the amount (sign removed) whatever came     *)
(* before it; and with one decodable candidate among candidates that are   *)
(* not valid JSON the amount is that candidate's, wherever it sits.        *)
(***************************************************************************)
C4_MalformedCandidateSkipped ==
    (pc \in {"extracted", "failed"} /\ resp.err.type = "nil" /\ mode # "none") =>
        LET cs == resp.candidates
            n == Len(cs)
        IN /\ pc = "extracted"
           /\ aiResult.err = NilError
           /\ ~aiResult.trx.isNil
           /\ (n >= 1 /\ SuppliesAmount(cs[n])) =>
                  aiResult.trx.val.Amount =
                      ensurePositiveAmount(ObjectOf(cs[n]).amount.val)
           /\ \A i \in 1..n :
                  (/\ SuppliesAmount(cs[i])
                   /\ \A j \in (1..n) \ {i} : IsMalformedJSON(cs[j]))
                  => aiResult.trx.val.Amount =
                         ensurePositiveAmount(ObjectOf(cs[i]).amount.val)

C4_Witness ==
    /\ Extracted
    /\ resp.candidates = <<CandProse, CandFenced>>
    /\ aiResult.err = NilError
    /\ aiResult.trx.val.Amount = <<"1", "0", "0">>

(***************************************************************************)
(* C5: the returned transaction reflects the last candidate that decoded   *)
(* successfully; no candidate that comes after it displaces its values.    *)
(***************************************************************************)
C5_LastDecodedWins ==
    (Extracted /\ LastDecoded(resp.candidates) # 0) =>
        Reflects(aiResult.trx.val, resp.candidates[LastDecoded(resp.candidates)])

(***************************************************************************)
(* C6: when the backend call succeeds with no candidate, only empty        *)
(* candidates or only candidates that fail to decode, extraction returns   *)
(* the zero-value transaction and a nil error.                             *)
(***************************************************************************)
C6_ZeroValueWhenNothingDecodes ==
    (Extracted /\ \A i \in 1..Len(resp.candidates) :
                      IsSkipped(resp.candidates[i]) \/ FailsToDecode(resp.candidates[i]))
    => /\ aiResult.trx = Ptr(ZeroTransaction)
       /\ aiResult.err = NilError

(***************************************************************************)
(* C7: when the backend call fails, extraction returns no transaction and  *)
(* an error of the backend-communication kind, which is retryable.         *)
(***************************************************************************)
C7_BackendFailureRetryable ==
    BackendFailed =>
        /\ aiResult.trx.isNil
        /\ aiResult.err.type # "nil"
        /\ aiResult.err.code = ErrCodeGemini
        /\ IsRetryableError(aiResult.err)

(***************************************************************************)
(* C8: when the append to the detail table fails, AppendRow returns an     *)
(* error with the zero-value summary and SaveTransaction returns an error  *)
(* to its caller.                                                          *)
(***************************************************************************)
AppendFailed == pc = "saved" /\ io.tzOk /\ ~io.appendOk

C8_AppendFailureSurfaced ==
    AppendFailed =>
        /\ appendResult.err.type # "nil"
        /\ appendResult.summary = ZeroSummary
        /\ saveResult.err.type # "nil"

(***************************************************************************)
(* C9: when the append succeeds and the summary read fails, AppendRow      *)
(* returns the zero-value summary and a nil error, and the row it appended *)
(* is the last row of the detail table.                                    *)
(***************************************************************************)
SummaryReadFailed == pc = "saved" /\ io.tzOk /\ io.appendOk /\ ~io.getOk

C9_SummaryReadFailureIsNotFatal ==
    SummaryReadFailed =>
        /\ appendResult.summary = ZeroSummary
        /\ appendResult.err = NilError
        /\ Len(detailed) >= 1
        /\ LET row == detailed[Len(detailed)] IN
             /\ row[1] = result.trx.val.TransactionDate
             /\ row[2] = result.trx.val.Category
             /\ row[4] = result.trx.val.Notes
             /\ row[5] = result.trx.val.Amount
             /\ row[6] = result.trx.val.CreatedBy
             /\ row[7] = result.trx.val.FileID

C9_Witness ==
    /\ SummaryReadFailed
    /\ appendResult.err = NilError
    /\ Len(detailed) = 1
    /\ detailed[1][2] = "Food"
    /\ detailed[1][5] = <<"1", "0", "0">>

(***************************************************************************)
(* C10: for the matching row of the summary window (the first row of at    *)
(* least 4 cells whose first cell is the transaction's category) the       *)
(* summary copies cells 1 to 4; quota is cell 5 when the row has it and "" *)
(* otherwise; quotaLeft is cell 6 when the row has it and "" otherwise;    *)
(* AppendRow returns no error.                                             *)
(***************************************************************************)
SummaryRead == pc = "saved" /\ io.tzOk /\ io.appendOk /\ io.getOk

IsMatchingRow(values, i, category) ==
    /\ Len(values[i]) >= 4
    /\ values[i][1] = category
    /\ \A j \in 1..(i - 1) : ~(Len(values[j]) >= 4 /\ values[j][1] = category)

C10_SummaryDefaulting ==
    SummaryRead =>
        \A i \in 1..Len(io.values) :
            IsMatchingRow(io.values, i, result.trx.val.Category) =>
                LET row == io.values[i]
                    s == appendResult.summary
                IN /\ appendResult.err = NilError
                   /\ s.Category = row[1]
                   /\ s.MonthlyExpenses = row[2]
                   /\ s.MonthlyBudget = row[3]
                   /\ s.BudgetLeft = row[4]
                   /\ s.Quota = (IF Len(row) >= 5 THEN row[5] ELSE "")
                   /\ s.QuotaLeft = (IF Len(row) >= 6 THEN row[6] ELSE "")

C10_Witness ==
    /\ SummaryRead
    /\ io.values = <<<<"Food", "1000", "5000", "-200", "300">>>>
    /\ appendResult.err = NilError
    /\ appendResult.summary.Category = "Food"
    /\ appendResult.summary.BudgetLeft = "-200"
    /\ appendResult.summary.Quota = "300"
    /\ appendResult.summary.QuotaLeft = ""

(***************************************************************************)
(* C11: the summary returned by AppendRow is the zero value, or its        *)
(* category is the category of the appended transaction and its other      *)
(* fields are the cells of one row of the window that has that category;   *)
(* it is the zero value when no row of the window has that category.       *)
(***************************************************************************)
Saved == pc = "saved"

\* the summary holds the cells of the row (cells the row lacks are "")
TakenFromRow(s, row) ==
    /\ Len(row) >= 4
    /\ s.Category = row[1]
    /\ s.MonthlyExpenses = row[2]
    /\ s.MonthlyBudget = row[3]
    /\ s.BudgetLeft = row[4]
    /\ s.Quota = (IF Len(row) >= 5 THEN row[5] ELSE "")
    /\ s.QuotaLeft = (IF Len(row) >= 6 THEN row[6] ELSE "")

HasCategory(row, category) == Len(row) >= 1 /\ row[1] = category

C11_SummaryIsOfTheCategory ==
    Saved =>
        LET s == appendResult.summary
            category == result.trx.val.Category
        IN /\ \/ s = ZeroSummary
              \/ /\ s.Category = category
                 /\ \E i \in 1..Len(io.values) :
                        /\ HasCategory(io.values[i], category)
                        /\ TakenFromRow(s, io.values[i])
           /\ (\A i \in 1..Len(io.values) : ~HasCategory(io.values[i], category))
                  => s = ZeroSummary

C11_Witness ==
    /\ SummaryRead
    /\ result.trx.val.Category = "Food"
    /\ io.values = <<<<"Transport", "200", "900", "700", "80", "-20">>,
                     <<"Food", "1000", "5000", "4000">>>>
    /\ appendResult.summary.Category = "Food"
    /\ appendResult.summary.MonthlyExpenses = "1000"
    /\ appendResult.summary.BudgetLeft = "4000"

(***************************************************************************)
(* C12: for a text input whose decoded amount is "-100", the transaction   *)
(* returned to the caller has amount "100", saving does not change the     *)
(* returned transaction, and the row appended to the detail table carries  *)
(* amount "100".                                                           *)
(***************************************************************************)
\* candidates that leave an amount in the accumulator
StoresAmount(cand) == IsObjectText(cand) /\ ObjectOf(cand).amount.kind = "string"

\* the amount last handed to ensurePositiveAmount is a: the last candidate
\* that stores an amount decodes, and its amount is a
NormalizedFrom(candidates, a) ==
    \E i \in 1..Len(candidates) :
        /\ SuppliesAmount(candidates[i])
        /\ ObjectOf(candidates[i]).amount.val = a
        /\ \A j \in (i + 1)..Len(candidates) : ~StoresAmount(candidates[j])

\* extraction in text mode has returned
C12_Extraction ==
    (/\ Extracted
     /\ mode = "text"
     /\ NormalizedFrom(resp.candidates, <<"-", "1", "0", "0">>))
    => /\ aiResult.trx.val.Amount = <<"1", "0", "0">>
       /\ result.trx.val.Amount = <<"1", "0", "0">>

\* the step from extraction to the save of that transaction
C12_SaveStep ==
    (/\ pc = "extracted"
     /\ pc' = "saved"
     /\ mode = "text"
     /\ result.trx.val.Amount = <<"1", "0", "0">>)
    => /\ result' = result
       /\ (io'.tzOk /\ io'.appendOk) =>
              /\ Len(detailed') = Len(detailed) + 1
              /\ detailed'[Len(detailed')][5] = <<"1", "0", "0">>

C12_AmountKeptEndToEnd == [](C12_Extraction) /\ [][C12_SaveStep]_vars

C12_Witness ==
    /\ Saved
    /\ mode = "text"
    /\ io.tzOk /\ io.appendOk
    /\ result.trx.val.Title = "Groceries"
    /\ result.trx.val.Amount = <<"1", "0", "0">>
    /\ detailed = <<DetailRow(result.trx.val)>>
    /\ detailed[1][5] = <<"1", "0", "0">>

(***************************************************************************)
(* C13: a successful HandleImageInput or HandleTextInput returns the       *)
(* extracted transaction with createdBy set to the uploader given by the   *)
(* caller, whatever created_by the backend output carried; when extraction *)
(* returns an error the service returns that error and no transaction.     *)
(***************************************************************************)
ExtractionFailed == pc = "failed" /\ mode \in {"text", "image"}

C13_CreatedByIsUploader ==
    /\ Extracted =>
          /\ result.err = NilError
          /\ ~result.trx.isNil
          /\ result.trx.val.CreatedBy = uploader
          /\ result.trx.val = [aiResult.trx.val EXCEPT !.CreatedBy = uploader]
    /\ ExtractionFailed =>
          /\ aiResult.err.type # "nil"
          /\ result.err = aiResult.err
          /\ result.trx.isNil

C13_Witness ==
    /\ Extracted
    /\ mode = "image"
    /\ aiResult.trx.val.CreatedBy = "mallory"
    /\ uploader = "alice"
    /\ result.trx.val.CreatedBy = "alice"

(***************************************************************************)
(* C14: in image mode, once the backend call has succeeded,                *)
(* ReadImageToTransaction calls os.Remove on the input image whatever the  *)
(* candidates were (none, none that decodes, or some that decodes); the    *)
(* image is gone when the removal succeeds, and when the removal fails the *)
(* call still returns the transaction with a nil error.                    *)
(***************************************************************************)
\* ReadImageToTransaction has returned and the backend had answered
BackendAnswered ==
    /\ mode = "image"
    /\ pc \in {"extracted", "failed"}
    /\ resp.err.type = "nil"
    /\ aiResult.err.message # "failed to read image"

C14_ImageRemovedAfterBackendCall ==
    BackendAnswered =>
        /\ removal \in {RemoveDone, RemoveError}
        /\ removal = RemoveDone => imgPath \notin files
        /\ removal = RemoveError => imgPath \in files
        /\ pc = "extracted"
        /\ aiResult.err = NilError
        /\ aiResult.trx = Ptr(ParseCandidates(resp.candidates, ZeroTransaction))

C14_Witness ==
    /\ BackendAnswered
    /\ resp.candidates = <<CandProse>>
    /\ removal = RemoveError
    /\ imgPath \in files
    /\ aiResult.err = NilError
    /\ ~aiResult.trx.isNil

(***************************************************************************)
(* C15: once a photo message has been processed, whatever the outcome, the *)
(* image downloaded for it is no longer in the downloads directory.        *)
(***************************************************************************)
\* handlePhoto has returned for a photo whose download succeeded
PhotoProcessed == mode = "image" /\ pc \in {"failed", "saved"}

C15_DownloadedImageRemoved ==
    PhotoProcessed => imgPath \notin files

(***************************************************************************)
(* C16: every constructor of an error kind gives the kind's code and its   *)
(* default severity: configuration is critical; chat platform, file,       *)
(* validation, transaction processing, data access, backend and ledger are *)
(* error; network and timeout are warning.  An AppError is retryable       *)
(* exactly when its code is the network, timeout, ledger or backend code,  *)
(* and critical exactly when its severity is critical; annotating an error *)
(* changes neither.                                                        *)
(***************************************************************************)
\* constructor of the kind -> <<code, default severity, retryable>>
Taxonomy ==
    [NewConfigError |-> <<"CONFIG_ERROR", "CRITICAL", FALSE>>,
     NewTelegramError |-> <<"TELEGRAM_ERROR", "ERROR", FALSE>>,
     NewGeminiError |-> <<"GEMINI_ERROR", "ERROR", TRUE>>,
     NewSpreadsheetError |-> <<"SPREADSHEET_ERROR", "ERROR", TRUE>>,
     NewFileError |-> <<"FILE_ERROR", "ERROR", FALSE>>,
     NewValidationError |-> <<"VALIDATION_ERROR", "ERROR", FALSE>>,
     NewTransactionError |-> <<"TRANSACTION_ERROR", "ERROR", FALSE>>,
     NewNetworkError |-> <<"NETWORK_ERROR", "WARNING", TRUE>>,
     NewGeminiTimeoutError |-> <<"TIMEOUT_ERROR", "WARNING", TRUE>>,
     NewDataAccessError |-> <<"DATA_ACCESS_ERROR", "ERROR", FALSE>>]

C16_TaxonomyDefaults ==
    /\ ctor \in DOMAIN Taxonomy =>
          /\ appErr.type = "AppError"
          /\ appErr.code = Taxonomy[ctor][1]
          /\ appErr.severity = Taxonomy[ctor][2]
          /\ classified.retryable = Taxonomy[ctor][3]
          /\ classified.critical = (Taxonomy[ctor][2] = "CRITICAL")
    /\ appErr.type = "AppError" =>
          /\ classified.retryable =
                (appErr.code \in {"NETWORK_ERROR", "TIMEOUT_ERROR",
                                  "SPREADSHEET_ERROR", "GEMINI_ERROR"})
          /\ classified.critical = (appErr.severity = "CRITICAL")

C16_Witness ==
    /\ ctor = "NewGeminiTimeoutError"
    /\ appErr.code = "TIMEOUT_ERROR"
    /\ appErr.severity = "WARNING"
    /\ appErr.component = "spreadsheet-client"
    /\ classified = [retryable |-> TRUE, critical |-> FALSE]

(***************************************************************************)
(* C17: no panic of the wrapped function leaves SafeExecute.  When the     *)
(* function panics, SafeExecute returns an AppError whose context holds    *)
(* the stack trace and, as function_context, the operation name it was     *)
(* given; when the function returns, SafeExecute returns exactly what the  *)
(* function returned, nil or its error.                                    *)
(***************************************************************************)
C17_PanicBecomesTypedError ==
    safeResult.done =>
        /\ ~safeResult.escaped
        /\ fn.kind = "panic" =>
              /\ safeResult.err.type = "AppError"
              /\ \E kv \in safeResult.err.context :
                     kv[1] = "stack_trace" /\ kv[2] # ""
              /\ <<"function_context", opName>> \in safeResult.err.context
        /\ fn.kind = "return" => safeResult.err = fn.err

C17_Witness ==
    /\ safeResult.done
    /\ fn = Panics("error", "runtime error: index out of range")
    /\ opName = "risky operation"
    /\ safeResult.err.type = "AppError"
    /\ safeResult.err.code = "TRANSACTION_ERROR"
    /\ <<"function_context", "risky operation">> \in safeResult.err.context
    /\ <<"stack_trace", StackTrace>> \in safeResult.err.context

(***************************************************************************)
(* C18: in image mode the prompt contains "from the image", the file       *)
(* identifier, the destination_number field and the source_account field   *)
(* with the account vocabulary, and none of the text-mode lines; in text   *)
(* mode it contains the message, the line that fixes transaction_date to   *)
(* the given date and the line that requires file_id to be empty, and no   *)
(* source_account field line.  In both modes it lists the category field   *)
(* with the category vocabulary.                                           *)
(***************************************************************************)
\* the fragment occurs in the text
Has(text, fragment) == \E i \in 1..Len(text) : text[i] = fragment

\* the fragments occur in the text one after the other
Contains(text, fragments) ==
    \E i \in 0..(Len(text) - Len(fragments)) :
        SubSeq(text, i + 1, i + Len(fragments)) = fragments

Built == prompt # <<>>

C18_PromptByMode ==
    Built =>
        /\ Contains(prompt, <<NL, "  - category (">>
                                \o Join(TransactionCategoryList, " / ") \o <<")", NL>>)
        /\ promptParams.IsImage =>
              /\ Has(prompt, "from the image")
              /\ Has(prompt, promptParams.FileID)
              /\ Contains(prompt, <<NL, "  - file_id ", promptParams.FileID, NL>>)
              /\ Contains(prompt, <<NL, "  - destination_number", NL>>)
              /\ Contains(prompt, <<NL, "  - source_account (only ">>
                                      \o Join(SourceAccountList, " / ") \o <<")", NL>>)
              /\ ~Has(prompt, "from the following message: ")
              /\ ~Has(prompt, "  - transaction_date should be ")
              /\ ~Has(prompt, "  - file_id should be empty")
        /\ ~promptParams.IsImage =>
              /\ Contains(prompt, <<"from the following message: ", promptParams.Message>>)
              /\ Contains(prompt, <<NL, "  - transaction_date should be ",
                                     promptParams.CurrentDate,
                                     " (format always YYYY-MM-DD)", NL>>)
              /\ Contains(prompt, <<NL, "  - file_id should be empty", NL>>)
              /\ ~Has(prompt, "  - source_account (only ")

C18_Witness ==
    /\ Built
    /\ ~promptParams.IsImage
    /\ promptParams.Message = "Transfer 100k to Budi"
    /\ promptParams.CurrentDate = "2025-07-10"
    /\ promptParams.FileID = "testfile.jpg"
    /\ Contains(prompt, <<"from the following message: ", "Transfer 100k to Budi">>)
    /\ ~Has(prompt, "testfile.jpg")

(***************************************************************************)
(* C19: startBotWithDeps returns ErrEnvVarMissing("TELEGRAM_BOT_TOKEN")    *)
(* when the token is empty (also when the API key is empty too),           *)
(* ErrEnvVarMissing("GEMINI_API_KEY") when only the API key is empty, and  *)
(* nil when both are present and the dependencies are not the real         *)
(* implementations; in none of these cases is the bot started.             *)
(***************************************************************************)
RealDeps ==
    /\ startArgs.spreadsheetService = "*spreadsheet.SpreadsheetService"
    /\ startArgs.geminiClient = "*gemini.GeminiClient"

C19_StartupChecks ==
    startResult.done =>
        /\ startArgs.telegramToken = "" =>
              /\ startResult.err.type = "ErrEnvVarMissing"
              /\ startResult.err.cause = "TELEGRAM_BOT_TOKEN"
              /\ ~startResult.started
        /\ (startArgs.telegramToken # "" /\ startArgs.apiKey = "") =>
              /\ startResult.err.type = "ErrEnvVarMissing"
              /\ startResult.err.cause = "GEMINI_API_KEY"
              /\ ~startResult.started
        /\ (startArgs.telegramToken # "" /\ startArgs.apiKey # "" /\ ~RealDeps) =>
              /\ startResult.err = NilError
              /\ ~startResult.started

C19_Witness ==
    /\ startResult.done
    /\ startArgs.telegramToken = ""
    /\ startArgs.apiKey = ""
    /\ RealDeps
    /\ startResult.err = ErrEnvVarMissing("TELEGRAM_BOT_TOKEN")
    /\ ~startResult.started

(***************************************************************************)
(* C20: within one AppendRow request the summary window is read only after *)
(* the append of the row has succeeded; when the append fails (or is never *)
(* sent) no read of the summary window is sent.                            *)
(***************************************************************************)
C20_SummaryReadAfterAppend ==
    Saved =>
        /\ \A i \in 1..Len(sheetCalls) :
              sheetCalls[i] = ValuesGet =>
                  /\ \E j \in 1..(i - 1) : sheetCalls[j] = ValuesAppend
                  /\ io.tzOk /\ io.appendOk
                  /\ detailed # <<>>
                  /\ detailed[Len(detailed)] = DetailRow(result.trx.val)
        /\ ~(io.tzOk /\ io.appendOk) =>
              \A i \in 1..Len(sheetCalls) : sheetCalls[i] # ValuesGet
        /\ (io.tzOk /\ io.appendOk) => sheetCalls = <<ValuesAppend, ValuesGet>>

C20_Witness ==
    /\ Saved
    /\ io.tzOk
    /\ ~io.appendOk
    /\ sheetCalls = <<ValuesAppend>>
    /\ detailed = <<>>

(***************************************************************************)
(* C21: when the first row of the summary window whose category cell is    *)
(* the transaction's category has fewer than 4 cells, AppendRow returns    *)
(* the zero-value summary: neither a partial summary nor the values of     *)
(* another row.                                                            *)
(***************************************************************************)
\* row i is the first row of the window whose category cell is the category
IsFirstOfCategory(values, i, category) ==
    /\ HasCategory(values[i], category)
    /\ \A j \in 1..(i - 1) : ~HasCategory(values[j], category)

C21_ShortRowGivesZeroSummary ==
    SummaryRead =>
        \A i \in 1..Len(io.values) :
            (/\ IsFirstOfCategory(io.values, i, result.trx.val.Category)
             /\ Len(io.values[i]) < 4)
                => /\ appendResult.summary = ZeroSummary
                   /\ appendResult.err = NilError

(***************************************************************************)
(* C22: the handler sends a "Saved" reply for a photo or a text message    *)
(* only if the append of that message to the ledger succeeded.             *)
(***************************************************************************)
\* a "Saved ..." reply was sent for the current update
SentSaved == \E i \in 1..Len(sent) : sent[i].head \in {SavedPhoto, SavedText}

C22_SavedOnlyAfterAppend ==
    SentSaved => /\ pc = "saved"
                 /\ appendResult.err = NilError
                 /\ Len(detailed) > 0

(***************************************************************************)
(* C23: a photo or a text message whose extraction or whose append to the  *)
(* ledger failed gets a failure notice: when its handling is over, a reply *)
(* other than "Saved" has been sent for it.                                *)
(***************************************************************************)
HandlingOver == pc \in {"failed", "saved"}

\* a reply that is not a confirmation was sent for the current update
SentFailureNotice ==
    \E i \in 1..Len(sent) : sent[i].head \notin {SavedPhoto, SavedText}

C23_FailureIsReported ==
    (HandlingOver /\ (ExtractionFailed \/ AppendFailed)) => SentFailureNotice

(***************************************************************************)
(* C24: a backend failure, a ledger failure or malformed backend output    *)
(* met while a photo or a text message is handled ends neither the process *)
(* nor the update loop: the failure reaches the handler as a typed error   *)
(* (an AppError) and the loop can take the next update.                    *)
(***************************************************************************)
IsTyped(err) == err.type = "AppError"

C24_FailuresBecomeTypedErrors ==
    /\ BackendFailed => IsTyped(result.err)
    /\ AppendFailed => IsTyped(saveResult.err)
    /\ HandlingOver => ENABLED NextUpdate

(***************************************************************************)
(* C25: while a text message is handled, HandleTextInput is the first call *)
(* and is made once; SaveTransaction is called at most once, after         *)
(* HandleTextInput and only when the extraction returned no error; when it *)
(* was called, exactly one reply follows it and nothing else; when the     *)
(* extraction failed, SaveTransaction is not called.                       *)
(***************************************************************************)
\* the positions of a call in the calls of the current update
CallsOf(name) == {i \in 1..Len(handlerCalls) : handlerCalls[i] = name}

C25_TextCallOrder ==
    mode = "text" =>
        /\ CallsOf(CallHandleTextInput) = {1}
        /\ Cardinality(CallsOf(CallSaveTransaction)) <= 1
        /\ CallsOf(CallSaveTransaction) # {} => result.err = NilError
        /\ result.err # NilError => CallsOf(CallSaveTransaction) = {}
        /\ pc = "extracted" => handlerCalls = <<CallHandleTextInput>> /\ sent = <<>>
        /\ pc = "saved" =>
              /\ handlerCalls =
                    <<CallHandleTextInput, CallSaveTransaction, CallSend>>
              /\ Len(sent) = 1

C25_Witness ==
    /\ mode = "text"
    /\ pc = "saved"
    /\ result.err = NilError
    /\ handlerCalls = <<CallHandleTextInput, CallSaveTransaction, CallSend>>
    /\ Len(sent) = 1
    /\ sent[1].head = SavedText

(***************************************************************************)
(* C26: in both modes the prompt holds exactly one worked example object,  *)
(* every value of the example is populated, and the keys of the example    *)
(* are exactly the fields that the field list of the mode asks for.        *)
(***************************************************************************)
\* the field that a line of the field list asks for
FieldOfLine ==
    ("  - title (summary of the transaction notes)" :> "title")
    @@ ("  - transaction_date (format always YYYY-MM-DD)" :> "transaction_date")
    @@ ("  - amount (ALWAYS use positive numbers in rupiah. Format: 1,000,000 for 1 million, 100,000 for 100k. Never use negative numbers, the transaction type is determined by context words like \"spent\", \"bought\", \"earned\", \"received\")" :> "amount")
    @@ ("  - notes (details of the transaction, containing items bought)" :> "notes")
    @@ ("  - category (" :> "category")
    @@ ("  - destination_number" :> "destination_number")
    @@ ("  - source_account (only " :> "source_account")
    @@ ("  - file_id " :> "file_id")
    @@ ("  - file_id should be empty" :> "file_id")

\* the member that a line of the example writes: its key and its value
MemberOfLine ==
    ("  \"title\": \"Spent on Lunch at ABC Cafe\"," :>
        [key |-> "title", value |-> "Spent on Lunch at ABC Cafe"])
    @@ ("  \"transaction_date\": \"2025-03-30\"," :>
        [key |-> "transaction_date", value |-> "2025-03-30"])
    @@ ("  \"amount\": \"150,000\"," :> [key |-> "amount", value |-> "150,000"])
    @@ ("  \"notes\": \"Lunch payment at ABC cafe - always use positive amounts regardless of whether it's spending or earning\"," :>
        [key |-> "notes", value |-> "Lunch payment at ABC cafe - always use positive amounts regardless of whether it's spending or earning"])
    @@ ("  \"destination_number\": \"0524012911\"," :>
        [key |-> "destination_number", value |-> "0524012911"])
    @@ ("  \"source_account\": \"Gopay\"," :>
        [key |-> "source_account", value |-> "Gopay"])
    @@ ("  \"category\": \"Eating Out\"," :>
        [key |-> "category", value |-> "Eating Out"])

\* the line of the example that is written around the file id
FileIDMemberStart == "  \"file_id\": \""

Occurrences(text, fragment) ==
    Cardinality({i \in 1..Len(text) : text[i] = fragment})

\* the part of the prompt from its line "Example:" on
ExampleOf(text) ==
    LET at == CHOOSE i \in 1..Len(text) : text[i] = "Example:" IN
    SubSeq(text, at, Len(text))

\* the part of the prompt before its line "Example:"
RequestOf(text) ==
    LET at == CHOOSE i \in 1..Len(text) : text[i] = "Example:" IN
    SubSeq(text, 1, at - 1)

\* the members of the example object, as key and value
ExampleMembers(text) ==
    LET ex == ExampleOf(text) IN
    {MemberOfLine[ex[i]] : i \in {j \in 1..Len(ex) : ex[j] \in DOMAIN MemberOfLine}}
    \cup {[key |-> "file_id", value |-> ex[i + 1]] :
            i \in {j \in 1..(Len(ex) - 1) : ex[j] = FileIDMemberStart}}

\* the fields that the field list asks for
RequestedFields(text) ==
    LET rq == RequestOf(text) IN
    {FieldOfLine[rq[i]] : i \in {j \in 1..Len(rq) : rq[j] \in DOMAIN FieldOfLine}}

ExampleKeys ==
    {"title", "transaction_date", "amount", "notes", "destination_number",
     "source_account", "category", "file_id"}

Replied == reply # <<>>

\* the cells of LeftCells that are the text of a number below zero
NegativeNumbers == {"-200", "-20", "-0.5"}

\* the cells of LeftCells that are empty or are not the text of a number
NotNumbers == {"", "-1,000", "n/a"}

C27_WarningLine ==
    Replied =>
        LET negative == \/ replyArgs.budgetLeft \in NegativeNumbers
                        \/ replyArgs.quotaLeft \in NegativeNumbers
            warned == reply[1].warning # <<>>
        IN /\ Len(reply) = 1
           /\ reply[1].BudgetLeft = replyArgs.budgetLeft
           /\ reply[1].QuotaLeft = replyArgs.quotaLeft
           /\ warned <=> (replyArgs.trx.WarningMessage # "" /\ negative)
           /\ warned => reply[1].warning[Len(reply[1].warning)]
                            = replyArgs.trx.WarningMessage
           /\ (/\ replyArgs.budgetLeft \in NotNumbers
               /\ replyArgs.quotaLeft \in NotNumbers) => ~warned

C27_Witness ==
    /\ Replied
    /\ replyArgs.trx.WarningMessage = "over budget"
    /\ replyArgs.budgetLeft = "-1,000"
    /\ replyArgs.quotaLeft = "-20"
    /\ reply[1].warning = <<NL, NL, "over budget">>
    /\ reply[1].head = SavedText

(***************************************************************************)
(* C28: no backend response makes the parser populate warningMessage: the  *)
(* transaction returned by extraction has an empty warningMessage, and no  *)
(* reply carries the warning line.                                         *)
(***************************************************************************)
Warned(message) == message.warning # <<>>

C28_WarningMessageNeverPopulated ==
    /\ Extracted => aiResult.trx.val.WarningMessage = ""
    /\ \A i \in 1..Len(sent) : ~Warned(sent[i])

\* the candidate is read, its text is a JSON object and the object has a
\* string member "warning_message"
SuppliesWarning(cand) ==
    IsObjectText(cand) /\ ObjectOf(cand).warning_message.kind = "string"

\* the warning_message of the last candidate that supplies one, "" when
\* none does
LastWarning(candidates) ==
    LET with == {i \in 1..Len(candidates) : SuppliesWarning(candidates[i])} IN
    IF with = {} THEN ""
    ELSE ObjectOf(candidates[CHOOSE i \in with : \A j \in with : j <= i]).warning_message.val

\* C28 as amended: the warningMessage of the transaction returned by
\* extraction is the "warning_message" of the last candidate of the
\* response whose text is a JSON object with such a member, and is empty
\* when no candidate has one; the service hands it on unchanged; a reply
\* carries the warning line only for a transaction with a warningMessage,
\* and the line carries that message.
C28_WarningMessageFromBackend ==
    /\ Extracted =>
          /\ aiResult.trx.val.WarningMessage = LastWarning(resp.candidates)
          /\ result.trx.val.WarningMessage = aiResult.trx.val.WarningMessage
    /\ \A i \in 1..Len(sent) :
          Warned(sent[i]) =>
              /\ result.trx.val.WarningMessage # ""
              /\ sent[i].warning = <<NL, NL, result.trx.val.WarningMessage>>

C28_Witness ==
    /\ pc = "saved"
    /\ mode = "text"
    /\ result.trx.val.WarningMessage = "over budget"
    /\ appendResult.summary.QuotaLeft = "-20"
    /\ Len(sent) = 1
    /\ sent[1].warning = <<NL, NL, "over budget">>

(***************************************************************************)
(* C29: each field of the transaction returned by extraction holds the     *)
(* value given by the last candidate that decodes and supplies that field  *)
(* (the amount with its sign removed), and the zero value when no such     *)
(* candidate exists: a field a later candidate omits keeps the earlier     *)
(* value, and a candidate that fails to decode changes no field.           *)
(***************************************************************************)
\* the candidates that decode and supply the member k
Suppliers(candidates, k) ==
    {i \in 1..Len(candidates) :
        DecodesOK(candidates[i]) /\ ObjectOf(candidates[i])[k].kind = "string"}

\* the value of field k after the candidates, by the rule of the claim
FieldByRule(candidates, k) ==
    LET from == Suppliers(candidates, k) IN
    IF from = {} THEN ZeroTransaction[FieldOfKey[k]]
    ELSE LET v == ObjectOf(candidates[CHOOSE i \in from : \A j \in from : j <= i])[k].val
         IN IF k = "amount" THEN ensurePositiveAmount(v) ELSE v

C29_FieldsFromLastDecodedSupplier ==
    Extracted =>
        \A k \in WireKeys :
            aiResult.trx.val[FieldOfKey[k]] = FieldByRule(resp.candidates, k)

(***************************************************************************)
(* C30: after any documents, photos and commands, every file that /view or *)
(* /download serves is an entry of the stored-file list, its index lies    *)
(* inside the list, and the file it names exists under downloads/ when it  *)
(* is served.                                                              *)
(***************************************************************************)
\* /view or /download has just sent a file
FileServed == served.kind \in {"photo", "document"}

C30_ServedFilesExist ==
    FileServed =>
        /\ served.index \in 1..Len(storedFiles)
        /\ served.path = LocalPath[storedFiles[served.index].FileName]
        /\ served.path \in files

====
